---- MODULE Spec2Model ----
(***************************************************************************)
(* A model of the selfstart control plane (backend-api): the auto-scaler   *)
(* (auto_scaler.py), the reverse proxy with its circuit breakers           *)
(* (proxy_manager.py) and the container orchestrator                       *)
(* (container_orchestrator.py).  Each subsystem has its own specification  *)
(* (SpecScaler, SpecProxy, SpecOrch); the variables of the other           *)
(* subsystems stay at their initial values.                                *)
(*                                                                         *)
(* Coroutines are modelled with one action per run between two             *)
(* suspension points (an awaited store, runtime or network call, or a      *)
(* sleep); code between two suspension points runs atomically on the       *)
(* event loop.  Wall-clock time is the discrete variable now.              *)
(***************************************************************************)
EXTENDS Integers, Sequences, FiniteSets, TLC

\* ------------------------------------------------------------------ bounds
MaxTime == 2
MaxHistory == 3
MaxTarget == 3
MaxSends == 3
MaxQueue == 2
MaxDepth == 2
MaxRegistrations == 3

\* scaling events are recorded up to this many per service
MaxEvents == 4

\* shutdowns are fired while the log table holds fewer rows than this
MaxLogs == 2

\* ------------------------------------------------------------- shared helpers
NoTime == 0 - 1

\* an empty dict
EmptyDict == [n \in {} |-> n]

Max2(a, b) == IF a >= b THEN a ELSE b

Min2(a, b) == IF a <= b THEN a ELSE b

RECURSIVE SumSeq(_)
SumSeq(s) == IF s = <<>> THEN 0 ELSE Head(s) + SumSeq(Tail(s))

\* Python's list[-count:] for count >= 1
LastN(s, count) ==
    IF Len(s) <= count THEN s ELSE SubSeq(s, Len(s) - count + 1, Len(s))

VARIABLES
    now,                  \* wall clock (datetime.now()), in ticks
    \* ---- auto-scaler
    scaling_policies,     \* AutoScaler.scaling_policies
    metrics_history,      \* AutoScaler.metrics_history
    last_scaling_actions, \* AutoScaler.last_scaling_actions (NoTime: no entry)
    current_replicas,     \* AutoScaler.current_replicas (-1: no entry)
    service_running,      \* service_discovery: service known with status RUNNING
    last_event,           \* head of the store list selfstart:scaling_events:<service>
    scaling_events,       \* the store list of each service: its entries, newest first,
                          \* each named by its rank among the events recorded
    eval_task,            \* position and locals of _scaling_evaluation_loop
    manual_task,          \* position and locals of a manual_scale call
    \* ---- reverse proxy (one ProxyTarget)
    proxy_target,         \* ProxyTarget configuration fields
    backend_status,       \* Backend.status
    current_connections,  \* Backend.current_connections
    success_count,        \* Backend.success_count
    error_count,          \* Backend.error_count
    circuit_breakers,     \* ProxyManager.circuit_breakers
    rr_index,             \* store counter selfstart:proxy:round_robin_index
    requests,             \* position and locals of each proxy_request call
    last_result,          \* what the proxy_request call that returned last returned
    open_age,             \* history: ticks since the breaker last became open
    last_selected,        \* history: the backend the latest round-robin
                          \* selection returned, NoBackend once a status changed
    session_store,        \* ProxyManager.session_store: session_id -> backend
    session_served,       \* history: the backend that answered the session and
                          \* has been healthy ever since (NoBackend: none)
    \* ---- ContainerOrchestrator (container_orchestrator.py)
    configs,              \* self.configs: name -> dependencies of the config
    containers,           \* self.containers: name -> ContainerStatus
    startup_queue,        \* self.startup_queue
    start_calls,          \* call stack and last result of each start_container caller
    stop_task,            \* position of the stop_container call
    registrations,        \* number of register_container calls made
    workers,              \* position of each _startup_worker
    health_failed,        \* history: some health check has not passed so far
    \* ---- ServiceDiscovery (service_discovery.py)
    docker_containers,    \* the runtime: status of each labelled container
    services,             \* self.services: name -> ServiceDefinition
    store_services,       \* store keys selfstart:service:<name>, with their TTL
    store_index,          \* store set selfstart:services
    discovery_task,       \* position and locals of _discover_services
    disc_health_task,     \* position and locals of _check_services_health
    cleanup_task,         \* position and locals of _cleanup_stale_services
    gone_age,             \* history: ticks since a scan first missed the container
    \* ---- AutoShutdownManager (autoshutdown_manager.py)
    shutdown_rule,        \* the enabled ShutdownRule of the rules table
    runtime_stats,        \* the runtime: what a stats read of the container returns
    container_stats,      \* self.container_stats: name -> ContainerStats
    shutdown_task,        \* position and locals of _check_all_rules
    shutdown_logs,        \* the rows of table shutdown_logs, oldest first
    \* ---- PluginManager (plugin_manager.py), one hook type
    hooks,                \* self.hooks[hook_type] (empty: no such key)
    active_plugins,       \* self.active_plugins: name -> instance (0: absent)
    instances,            \* number of plugin instances created
    trigger_task,         \* position and locals of a trigger_hook call
    deactivate_task       \* position of a _deactivate_plugin call

scalerVars == <<scaling_policies, metrics_history, last_scaling_actions,
                current_replicas, service_running, last_event, scaling_events,
                eval_task, manual_task>>

proxyVars == <<proxy_target, backend_status, current_connections, success_count,
               error_count, circuit_breakers, rr_index,
               requests, last_result, open_age, last_selected,
               session_store, session_served>>

\* what each subsystem's actions leave alone
orchVars == <<registrations, configs, containers, startup_queue, start_calls, stop_task, workers,
             health_failed>>

discVars == <<docker_containers, services, store_services, store_index,
              discovery_task, disc_health_task, cleanup_task, gone_age>>

shutdownVars == <<shutdown_rule, runtime_stats, container_stats, shutdown_task,
                  shutdown_logs>>

pluginVars == <<hooks, active_plugins, instances, trigger_task, deactivate_task>>

notScalerVars == <<proxyVars, orchVars, discVars, shutdownVars, pluginVars>>

notProxyVars == <<scalerVars, orchVars, discVars, shutdownVars, pluginVars>>

notOrchVars == <<now, scalerVars, proxyVars, discVars, shutdownVars, pluginVars>>

notDiscVars == <<now, scalerVars, proxyVars, orchVars, shutdownVars, pluginVars>>

notShutdownVars == <<now, scalerVars, proxyVars, orchVars, discVars, pluginVars>>

notPluginVars == <<now, scalerVars, proxyVars, orchVars, discVars, shutdownVars>>

\* =================================================================
\* Auto-scaler
\* =================================================================
Services == {"s1"}

NoEntry == 0 - 1

Directions == {"up", "down", "none"}

\* ScalingPolicy with the dataclass defaults; the fields the model varies
\* are the replica limits, the cooldowns (in ticks) and enable_prediction.
ScalingPolicy(minr, maxr, upcd, downcd, pred) ==
    [enabled |-> TRUE,
     cpu_scale_up_threshold |-> 80, memory_scale_up_threshold |-> 85,
     network_scale_up_threshold |-> 100,
     cpu_scale_down_threshold |-> 30, memory_scale_down_threshold |-> 40,
     network_scale_down_threshold |-> 20,
     scale_up_cooldown |-> upcd, scale_down_cooldown |-> downcd,
     min_replicas |-> minr, max_replicas |-> maxr,
     evaluation_periods |-> 3, enable_prediction |-> pred]

PolicySet ==
    {ScalingPolicy(1, maxr, 2, 3, pred) : maxr \in {2}, pred \in BOOLEAN}

\* ScalingMetrics samples fed by the collector
ScalingMetrics(cpu, mem, nin, nout) ==
    [cpu_percent |-> cpu, memory_percent |-> mem,
     network_in_mbps |-> nin, network_out_mbps |-> nout]

SampleSet == {ScalingMetrics(cpu, 20, 0, 0) : cpu \in {20, 90}}

prediction_enabled == TRUE

prediction_samples == 10

_get_recent_metrics(service_name, count) ==
    LastN(metrics_history[service_name], count)

\* _store_metrics: append, then keep the last max_history samples
_store_metrics(hist, metrics) ==
    LastN(Append(hist, metrics), MaxHistory)

Field_InboundOnly(m, metric_name) ==
    IF metric_name = "cpu_percent" THEN m.cpu_percent
    ELSE IF metric_name = "memory_percent" THEN m.memory_percent
    ELSE m.network_in_mbps

Field(m, metric_name) ==
    IF metric_name = "cpu_percent" THEN m.cpu_percent
    ELSE IF metric_name = "memory_percent" THEN m.memory_percent
    ELSE Max2(m.network_in_mbps, m.network_out_mbps)

Values(ms, metric_name) == [i \in 1..Len(ms) |-> Field(ms[i], metric_name)]

\* _predict_metric as the fraction PredNum / PredDen (PredDen > 0):
\* max(0, weighted_avg + trend * 3) with weights 1..m and
\* trend = (values[-1] - values[0]) / m; 0 with fewer than 3 samples.
PredDen(service_name) ==
    LET m == Len(_get_recent_metrics(service_name, prediction_samples))
    IN  IF m < 3 THEN 1 ELSE ((m * (m + 1)) \div 2) * m

PredNum(service_name, metric_name) ==
    LET ms == _get_recent_metrics(service_name, prediction_samples)
        m  == Len(ms)
        v  == Values(ms, metric_name)
        D  == (m * (m + 1)) \div 2
        W  == SumSeq([i \in 1..m |-> i * v[i]])
        T  == v[m] - v[1]
    IN  IF m < 3 THEN 0 ELSE Max2(0, W * m + 3 * T * D)

\* The value compared with the thresholds, as the fraction AxisNum / AxisDen:
\* the mean over the window, blended 0.7 / 0.3 with the prediction for CPU
\* and memory when prediction is enabled.
Blended(policy, metric_name) ==
    policy.enable_prediction /\ prediction_enabled
        /\ metric_name \in {"cpu_percent", "memory_percent"}

AxisDen(service_name, policy, metric_name) ==
    LET n == Len(_get_recent_metrics(service_name, policy.evaluation_periods))
    IN  IF Blended(policy, metric_name)
        THEN 10 * n * PredDen(service_name)
        ELSE n

AxisNum(service_name, policy, metric_name) ==
    LET recent == _get_recent_metrics(service_name, policy.evaluation_periods)
        n == Len(recent)
        S == SumSeq(Values(recent, metric_name))
    IN  IF Blended(policy, metric_name)
        THEN 7 * S * PredDen(service_name) + 3 * PredNum(service_name, metric_name) * n
        ELSE S

Above(service_name, policy, metric_name, threshold) ==
    AxisNum(service_name, policy, metric_name)
        > threshold * AxisDen(service_name, policy, metric_name)

Below(service_name, policy, metric_name, threshold) ==
    AxisNum(service_name, policy, metric_name)
        < threshold * AxisDen(service_name, policy, metric_name)

_is_cooldown_expired(service_name, policy) ==
    \/ last_scaling_actions[service_name] = NoTime
    \/ now - last_scaling_actions[service_name]
          >= Min2(policy.scale_up_cooldown, policy.scale_down_cooldown)

_get_current_replicas(service_name) ==
    IF current_replicas[service_name] # NoEntry
    THEN current_replicas[service_name]
    ELSE IF service_running[service_name] THEN 1 ELSE 0

_make_scaling_decision(service_name, policy) ==
    IF ~_is_cooldown_expired(service_name, policy) THEN "none"
    ELSE IF Len(_get_recent_metrics(service_name, policy.evaluation_periods))
              < policy.evaluation_periods THEN "none"
    ELSE IF \/ Above(service_name, policy, "cpu_percent", policy.cpu_scale_up_threshold)
            \/ Above(service_name, policy, "memory_percent", policy.memory_scale_up_threshold)
            \/ Above(service_name, policy, "network", policy.network_scale_up_threshold)
         THEN IF _get_current_replicas(service_name) < policy.max_replicas
              THEN "up" ELSE "none"
    ELSE IF /\ Below(service_name, policy, "cpu_percent", policy.cpu_scale_down_threshold)
            /\ Below(service_name, policy, "memory_percent", policy.memory_scale_down_threshold)
            /\ Below(service_name, policy, "network", policy.network_scale_down_threshold)
         THEN IF _get_current_replicas(service_name) > policy.min_replicas
              THEN "down" ELSE "none"
    ELSE "none"

\* new_replicas of _execute_scaling_action
NewReplicas(current, direction, policy) ==
    IF direction = "up"
    THEN Min2(current + 1, policy.max_replicas)
    ELSE Max2(current - 1, policy.min_replicas)

IdleTask == [pc |-> "idle"]

\* ScalingEvent as _record_scaling_event stores it
ScalingEvent(service_name, direction, trigger, success) ==
    [service_name |-> service_name, direction |-> direction,
     trigger |-> trigger, success |-> success]

NoEvent == ScalingEvent("none", "none", "none", FALSE)

\* the stop index _record_scaling_event passes to ltrim (100 in the code;
\* the comment at the call reads "keep the last 100 events")
ltrim_stop == 2

\* redis LPUSH and LTRIM: LTRIM keeps the elements at the 0-based indices
\* start..stop, both ends included
LPush(list, element) == <<element>> \o list

LTrim(list, start, stop) == SubSeq(list, start + 1, Min2(stop + 1, Len(list)))

\* the rank of the next event recorded for a service
NextRank(list) == IF list = <<>> THEN 1 ELSE Head(list) + 1

\* _record_scaling_event on the list of one service
_record_scaling_event(list) == LTrim(LPush(list, NextRank(list)), 0, ltrim_stop)

ScalerInit ==
    /\ scaling_policies \in [Services -> PolicySet]
    /\ metrics_history = [s \in Services |-> <<>>]
    /\ last_scaling_actions = [s \in Services |-> NoTime]
    /\ current_replicas = [s \in Services |-> NoEntry]
    /\ service_running \in [Services -> BOOLEAN]
    /\ last_event = NoEvent
    /\ scaling_events = [s \in Services |-> <<>>]
    /\ eval_task = IdleTask
    /\ manual_task = IdleTask

\* _collect_metrics / _store_metrics: one sample of a running service
CollectMetrics(s, m) ==
    /\ service_running[s]
    /\ metrics_history' = [metrics_history EXCEPT ![s] = _store_metrics(@, m)]
    /\ UNCHANGED <<now, scaling_policies, last_scaling_actions, current_replicas,
                   service_running, last_event, scaling_events,
                   eval_task, manual_task>>
    /\ UNCHANGED notScalerVars

\* _evaluate_scaling_decisions for one service, up to the first suspension
\* of _execute_scaling_action (the awaited _scale_service)
EvalDecide(s) ==
    LET policy == scaling_policies[s]
        decision == _make_scaling_decision(s, policy)
        current == _get_current_replicas(s)
        new == NewReplicas(current, decision, policy)
    IN  /\ eval_task.pc = "idle"
        /\ policy.enabled
        /\ decision # "none"
        /\ new # current
        /\ eval_task' = [pc |-> "scaling", service |-> s, direction |-> decision,
                         from_replicas |-> current, to_replicas |-> new,
                         decided_at |-> now]
        /\ UNCHANGED <<now, scaling_policies, metrics_history, last_scaling_actions,
                       current_replicas, service_running, last_event, scaling_events,
                       manual_task>>
        /\ UNCHANGED notScalerVars

\* _scale_service returns (True, or False when the service is unknown or the
\* runtime call raises); next suspension: _record_scaling_event
EvalScaled(success) ==
    /\ eval_task.pc = "scaling"
    /\ eval_task' = [eval_task EXCEPT !.pc = "recording"] @@ [success |-> success]
    /\ UNCHANGED <<now, scaling_policies, metrics_history, last_scaling_actions,
                   current_replicas, service_running, last_event, scaling_events,
                       manual_task>>
    /\ UNCHANGED notScalerVars

\* the end of _execute_scaling_action: replicas and timer are written on
\* success only
StampedReplicas(task) ==
    IF task.success
    THEN [current_replicas EXCEPT ![task.service] = task.to_replicas]
    ELSE current_replicas

StampedTimer_Always(task) ==
    [last_scaling_actions EXCEPT ![task.service] = now]

StampedTimer(task) ==
    IF task.success
    THEN [last_scaling_actions EXCEPT ![task.service] = now]
    ELSE last_scaling_actions

\* _record_scaling_event returned: the event is in the store
EvalFinish ==
    /\ eval_task.pc = "recording"
    /\ NextRank(scaling_events[eval_task.service]) <= MaxEvents
    /\ scaling_events' = [scaling_events EXCEPT ![eval_task.service] =
                              _record_scaling_event(@)]
    /\ last_event' = ScalingEvent(eval_task.service, eval_task.direction,
                                  "cpu_threshold", eval_task.success)
    /\ current_replicas' = StampedReplicas(eval_task)
    /\ last_scaling_actions' = StampedTimer(eval_task)
    /\ eval_task' = IdleTask
    /\ UNCHANGED <<now, scaling_policies, metrics_history, service_running, manual_task>>
    /\ UNCHANGED notScalerVars

\* manual_scale up to its first suspension (the awaited _scale_service)
ManualScale(s, target_replicas) ==
    /\ manual_task.pc = "idle"
    /\ manual_task' = [pc |-> "scaling", service |-> s,
                       from_replicas |-> _get_current_replicas(s),
                       to_replicas |-> target_replicas]
    /\ UNCHANGED <<now, scaling_policies, metrics_history, last_scaling_actions,
                   current_replicas, service_running, last_event, scaling_events,
                   eval_task>>
    /\ UNCHANGED notScalerVars

ManualScaled(success) ==
    /\ manual_task.pc = "scaling"
    /\ manual_task' = IF success THEN [manual_task EXCEPT !.pc = "recording"]
                      ELSE IdleTask
    /\ UNCHANGED <<now, scaling_policies, metrics_history, last_scaling_actions,
                   current_replicas, service_running, last_event, scaling_events,
                   eval_task>>
    /\ UNCHANGED notScalerVars

ManualFinish ==
    /\ manual_task.pc = "recording"
    /\ NextRank(scaling_events[manual_task.service]) <= MaxEvents
    /\ scaling_events' = [scaling_events EXCEPT ![manual_task.service] =
                              _record_scaling_event(@)]
    /\ last_event' =
          ScalingEvent(manual_task.service,
                       IF manual_task.to_replicas > manual_task.from_replicas
                       THEN "up" ELSE "down",
                       "manual", TRUE)
    /\ current_replicas' =
          [current_replicas EXCEPT ![manual_task.service] =
              manual_task.to_replicas]
    /\ last_scaling_actions' =
          [last_scaling_actions EXCEPT ![manual_task.service] = now]
    /\ manual_task' = IdleTask
    /\ UNCHANGED <<now, scaling_policies, metrics_history, service_running, eval_task>>
    /\ UNCHANGED notScalerVars

Tick ==
    /\ now < MaxTime
    /\ now' = now + 1

ScalerTick ==
    /\ Tick
    /\ UNCHANGED scalerVars
    /\ UNCHANGED notScalerVars

ScalerNext ==
    \/ \E s \in Services, m \in SampleSet : CollectMetrics(s, m)
    \/ \E s \in Services : EvalDecide(s)
    \/ \E ok \in BOOLEAN : EvalScaled(ok)
    \/ EvalFinish
    \/ \E s \in Services, t \in 0..MaxTarget : ManualScale(s, t)
    \/ \E ok \in BOOLEAN : ManualScaled(ok)
    \/ ManualFinish
    \/ ScalerTick

\* =================================================================
\* Reverse proxy
\* =================================================================
\* ProxyTarget.backends in list order
BackendList == <<"b1", "b2">>

Backends == {BackendList[i] : i \in 1..Len(BackendList)}

\* concurrent callers of proxy_request
Requests == {"r1", "r2"}

NoBackend == "none"

ProxyRule == {"round_robin", "least_connections", "weighted", "ip_hash", "health_based"}

\* Backend.weight (dataclass default)
weight == [b \in Backends |-> 1]

\* Backend.max_connections as registered for every backend of the target
\* (register_target passes the caller's value); no code of the proxy reads it
max_connections == [b \in Backends |-> 1]

\* ProxyTarget: timeouts in ticks
ProxyTarget(rule, max_retries, threshold, sticky_sessions) ==
    [rule |-> rule, max_retries |-> max_retries,
     circuit_breaker_threshold |-> threshold, circuit_breaker_timeout |-> 1,
     sticky_sessions |-> sticky_sessions]

\* the targets explored: every rule, with and without retries, breakers
\* that open on the first and on the second failure, with and without sticky
\* sessions
TargetSet ==
    {ProxyTarget("round_robin", 0, 2, FALSE),
     ProxyTarget("least_connections", 3, 1, TRUE),
     ProxyTarget("weighted", 0, 1, FALSE), ProxyTarget("ip_hash", 0, 2, FALSE),
     ProxyTarget("health_based", 3, 2, FALSE)}

\* ---- CircuitBreaker
\* The proxy reads the clock only to stamp last_failure_time and to compare
\* its age with the timeout, so the breaker keeps the age of the stamp,
\* since_failure = now - last_failure_time in ticks (NoTime: None), counted
\* up to timeout + 1.
CircuitBreaker(threshold, timeout) ==
    [threshold |-> threshold, timeout |-> timeout, failure_count |-> 0,
     since_failure |-> NoTime, state |-> "closed"]

call_succeeded_KeepState(cb) == [cb EXCEPT !.failure_count = 0]

call_succeeded(cb) == [cb EXCEPT !.failure_count = 0, !.state = "closed"]

call_failed_Late(cb) ==
    [cb EXCEPT !.failure_count = @ + 1,
               !.since_failure = 0,
               !.state = IF cb.failure_count + 1 > cb.threshold THEN "open" ELSE @]

call_failed(cb) ==
    [cb EXCEPT !.failure_count = @ + 1,
               !.since_failure = 0,
               !.state = IF cb.failure_count + 1 >= cb.threshold THEN "open" ELSE @]

TimeoutElapsed_NoWait(cb) == cb.since_failure # NoTime

TimeoutElapsed(cb) ==
    cb.since_failure # NoTime /\ cb.since_failure > cb.timeout

\* can_attempt: the value returned
can_attempt(cb) ==
    \/ cb.state = "closed"
    \/ cb.state = "open" /\ TimeoutElapsed(cb)
    \/ cb.state = "half-open"

\* can_attempt: the breaker after the call (open -> half-open on a timeout)
after_can_attempt(cb) ==
    IF cb.state = "open" /\ TimeoutElapsed(cb)
    THEN [cb EXCEPT !.state = "half-open"]
    ELSE cb

\* ---- selection
get_healthy_backends_Any == BackendList

get_healthy_backends ==
    SelectSeq(BackendList, LAMBDA b : backend_status[b] = "healthy")

FewerConnections(a, b) == current_connections[a] < current_connections[b]

\* min(healthy_backends, key=current_connections): Python's min returns the
\* first element with the least key
LeastConnections(hs) ==
    hs[CHOOSE i \in 1..Len(hs) :
          /\ \A j \in 1..Len(hs) : ~FewerConnections(hs[j], hs[i])
          /\ \A j \in 1..(i - 1) : FewerConnections(hs[i], hs[j])]

\* Backend.health_ratio as a fraction
RatioNum(b) == IF success_count[b] + error_count[b] > 0 THEN success_count[b] ELSE 1

RatioDen(b) ==
    IF success_count[b] + error_count[b] > 0
    THEN success_count[b] + error_count[b] ELSE 1

HigherRatio(a, b) == RatioNum(a) * RatioDen(b) > RatioNum(b) * RatioDen(a)

\* max(healthy_backends, key=health_ratio): the first element with the
\* greatest key
HealthiestBackend(hs) ==
    hs[CHOOSE i \in 1..Len(hs) :
          /\ \A j \in 1..Len(hs) : ~HigherRatio(hs[j], hs[i])
          /\ \A j \in 1..(i - 1) : HigherRatio(hs[i], hs[j])]

RECURSIVE WeightedWalk(_, _)
WeightedWalk(hs, r) ==
    IF Len(hs) = 1 \/ r - weight[Head(hs)] <= 0
    THEN Head(hs)
    ELSE WeightedWalk(Tail(hs), r - weight[Head(hs)])

TotalWeight(hs) == SumSeq([i \in 1..Len(hs) |-> weight[hs[i]]])

\* _weighted_select with random.randint(1, total_weight) = r
_weighted_select(hs, r) ==
    IF TotalWeight(hs) = 0 THEN hs[1] ELSE WeightedWalk(hs, r)

\* _ip_hash_select with the md5 value of the client address = h
_ip_hash_select(hs, h) == hs[(h % Len(hs)) + 1]

\* _round_robin_select: the store counter after INCR, or int(time.time()) = t
\* when the store call raises.  The counter is read only modulo the number of
\* healthy backends (1 or 2 here), so the model keeps it modulo RRModulus.
RRModulus == Len(BackendList)

_round_robin_select(hs, store_ok, t) ==
    IF store_ok THEN hs[((rr_index + 1) % Len(hs)) + 1]
    ELSE hs[(t % Len(hs)) + 1]

\* _select_backend for the rules decided without suspension; k is the random
\* draw (weighted) or the address hash (ip_hash)
SelectSync(hs, k) ==
    CASE proxy_target.rule = "least_connections" -> LeastConnections(hs)
      [] proxy_target.rule = "weighted" -> _weighted_select(hs, (k % Max2(1, TotalWeight(hs))) + 1)
      [] proxy_target.rule = "ip_hash" -> _ip_hash_select(hs, k)
      [] proxy_target.rule = "health_based" -> HealthiestBackend(hs)
      [] OTHER -> hs[1]

\* every call modelled carries this session_id
SessionId == "s1"

\* _select_backend, the sticky-session lookup: the healthy backend the
\* session is stored for, or NoBackend
StickyBackend(hs) ==
    IF /\ proxy_target.sticky_sessions
       /\ SessionId \in DOMAIN session_store
       /\ \E i \in 1..Len(hs) : hs[i] = session_store[SessionId]
    THEN session_store[SessionId]
    ELSE NoBackend

\* ---- proxy_request
\* misrouted and trial are history fields: whether the backend was not healthy
\* when the request was sent to it, and whether the breaker admitted it as a
\* half-open trial.
IdleRequest ==
    [pc |-> "idle", first |-> NoBackend, backend |-> NoBackend, snapshot |-> <<>>,
     misrouted |-> FALSE, trial |-> FALSE]

\* (status, body) returned; for a backend's reply also whether that backend
\* was healthy when the request was sent and the breaker's state on arrival
Result(result) == [result |-> result, misrouted |-> FALSE, cb_before |-> "none"]

\* requests sent to backends so far
Sends ==
    SumSeq([i \in 1..Len(BackendList) |->
               success_count[BackendList[i]] + error_count[BackendList[i]]])
      + Cardinality({r \in Requests : requests[r].pc = "inflight"})

\* the call returns: proxy_request's finally clause on the first backend
Done(r, first, conn, res) ==
    /\ requests' = [requests EXCEPT ![r] = IdleRequest]
    /\ last_result' = res
    /\ current_connections' =
          IF first = NoBackend THEN conn
          ELSE [conn EXCEPT ![first] = Max2(0, @ - 1)]

\* _make_request up to the suspension on the backend's reply
MakeRequest(r, b, first, conn) ==
    IF can_attempt(circuit_breakers[b])
    THEN /\ Sends < MaxSends
         /\ circuit_breakers' =
               [circuit_breakers EXCEPT ![b] = after_can_attempt(@)]
         /\ requests' = [requests EXCEPT ![r] =
               [pc |-> "inflight", first |-> first, backend |-> b,
                snapshot |-> <<>>,
                misrouted |-> backend_status[b] # "healthy"
                                /\ get_healthy_backends # <<>>,
                trial |-> after_can_attempt(circuit_breakers[b]).state = "half-open"]]
         /\ UNCHANGED last_result
         /\ open_age' =
               IF after_can_attempt(circuit_breakers[b]).state = "open"
               THEN open_age ELSE [open_age EXCEPT ![b] = NoTime]
         /\ current_connections' = conn
    ELSE /\ Done(r, first, conn, Result("503_circuit_open"))
         /\ UNCHANGED <<circuit_breakers, open_age>>

\* proxy_request after the backend is selected
Begin(r, b) ==
    MakeRequest(r, b, b, [current_connections EXCEPT ![b] = @ + 1])

ProxyRequest(r, k) ==
    /\ requests[r].pc = "idle"
    /\ LET hs == get_healthy_backends
       IN  IF hs = <<>>
           THEN /\ last_result' = Result("503_no_healthy")
                /\ UNCHANGED <<requests, current_connections, circuit_breakers,
                               open_age>>
           ELSE IF StickyBackend(hs) # NoBackend
           THEN Begin(r, StickyBackend(hs))
           ELSE IF proxy_target.rule = "round_robin"
           THEN /\ requests' = [requests EXCEPT ![r] =
                       [IdleRequest EXCEPT !.pc = "selecting", !.snapshot = hs]]
                /\ UNCHANGED <<current_connections, circuit_breakers, open_age,
                               last_result>>
           ELSE Begin(r, SelectSync(hs, k))
    /\ UNCHANGED <<now, backend_status, success_count, error_count, rr_index,
                   proxy_target>>
    /\ UNCHANGED <<last_selected, session_store, session_served>>
    /\ UNCHANGED notProxyVars

\* _round_robin_select resumes after the store's INCR
SelectDone(r, store_ok, t) ==
    /\ requests[r].pc = "selecting"
    /\ rr_index' = IF store_ok THEN (rr_index + 1) % RRModulus ELSE rr_index
    /\ Begin(r, _round_robin_select(requests[r].snapshot, store_ok, t))
    /\ last_selected' = _round_robin_select(requests[r].snapshot, store_ok, t)
    /\ UNCHANGED <<now, backend_status, success_count, error_count,
                   proxy_target>>
    /\ UNCHANGED <<session_store, session_served>>
    /\ UNCHANGED notProxyVars

\* the backend replied (any status code)
Response(r) ==
    LET b == requests[r].backend
    IN  /\ requests[r].pc = "inflight"
        /\ success_count' = [success_count EXCEPT ![b] = @ + 1]
        /\ circuit_breakers' = [circuit_breakers EXCEPT ![b] = call_succeeded(@)]
        /\ open_age' = [open_age EXCEPT ![b] = NoTime]
        /\ session_served' =
              IF /\ proxy_target.sticky_sessions
                 /\ session_served = NoBackend
                 /\ backend_status[b] = "healthy"
              THEN b ELSE session_served
        /\ Done(r, requests[r].first, current_connections,
                [Result("response") EXCEPT
                    !.misrouted = requests[r].misrouted,
                    !.cb_before = circuit_breakers[b].state])
        /\ UNCHANGED <<now, backend_status, error_count, rr_index, proxy_target>>
        /\ UNCHANGED <<last_selected, session_store>>
        /\ UNCHANGED notProxyVars

\* the request raised (connection error, timeout)
Failure(r) ==
    LET b == requests[r].backend
        others == SelectSeq(get_healthy_backends, LAMBDA x : x # b)
        cb == call_failed(circuit_breakers[b])
    IN  /\ requests[r].pc = "inflight"
        /\ error_count' = [error_count EXCEPT ![b] = @ + 1]
        /\ circuit_breakers' = [circuit_breakers EXCEPT ![b] = cb]
        /\ open_age' =
              IF cb.state = "open" /\ circuit_breakers[b].state # "open"
              THEN [open_age EXCEPT ![b] = 0] ELSE open_age
        /\ IF proxy_target.max_retries > 0
           THEN IF others = <<>>
                THEN Done(r, requests[r].first, current_connections,
                          Result("502_all_failed"))
                ELSE /\ requests' = [requests EXCEPT ![r] =
                            [@ EXCEPT !.pc = "retry_sleep", !.backend = others[1]]]
                     /\ UNCHANGED <<current_connections, last_result>>
           ELSE Done(r, requests[r].first, current_connections,
                     Result("502_backend_error"))
        /\ UNCHANGED <<now, backend_status, success_count, rr_index, proxy_target>>
        /\ UNCHANGED <<last_selected, session_store, session_served>>
        /\ UNCHANGED notProxyVars

\* _retry_request resumes after asyncio.sleep(retry_timeout)
RetryWake(r) ==
    /\ requests[r].pc = "retry_sleep"
    /\ MakeRequest(r, requests[r].backend, requests[r].first, current_connections)
    /\ UNCHANGED <<now, backend_status, success_count, error_count, rr_index,
                   proxy_target>>
    /\ UNCHANGED <<last_selected, session_store, session_served>>
    /\ UNCHANGED notProxyVars

\* _check_backend_health: the outcome of a probe.  The health loop decides
\* when a probe is due (health_check_interval); the model lets one complete
\* at any time.
HealthProbe(b, passed) ==
    /\ backend_status' = [backend_status EXCEPT ![b] =
                              IF passed THEN "healthy" ELSE "unhealthy"]
    /\ last_selected' =
          IF backend_status[b] = (IF passed THEN "healthy" ELSE "unhealthy")
          THEN last_selected ELSE NoBackend
    /\ session_served' =
          IF session_served = b /\ ~passed THEN NoBackend ELSE session_served
    /\ UNCHANGED <<now, current_connections, success_count, error_count,
                   circuit_breakers, rr_index, requests, last_result, proxy_target,
                   open_age>>
    /\ UNCHANGED session_store
    /\ UNCHANGED notProxyVars

set_backend_maintenance(b, maintenance) ==
    /\ backend_status' = [backend_status EXCEPT ![b] =
                              IF maintenance THEN "maintenance" ELSE "healthy"]
    /\ last_selected' =
          IF backend_status[b] = (IF maintenance THEN "maintenance" ELSE "healthy")
          THEN last_selected ELSE NoBackend
    /\ session_served' =
          IF session_served = b /\ maintenance THEN NoBackend ELSE session_served
    /\ UNCHANGED <<now, current_connections, success_count, error_count, circuit_breakers, rr_index, requests,
                   last_result, proxy_target, open_age>>
    /\ UNCHANGED session_store
    /\ UNCHANGED notProxyVars

\* the state after register_target
ProxyInit ==
    /\ proxy_target \in TargetSet
    /\ backend_status = [b \in Backends |-> "healthy"]
    /\ current_connections = [b \in Backends |-> 0]
    /\ success_count = [b \in Backends |-> 0]
    /\ error_count = [b \in Backends |-> 0]
    /\ circuit_breakers = [b \in Backends |->
          CircuitBreaker(proxy_target.circuit_breaker_threshold,
                         proxy_target.circuit_breaker_timeout)]
    /\ rr_index = 0
    /\ requests = [r \in Requests |-> IdleRequest]
    /\ last_result = Result("none")
    /\ open_age = [b \in Backends |-> NoTime]
    /\ last_selected = NoBackend
    /\ session_store = EmptyDict
    /\ session_served = NoBackend

Aged(age, timeout) ==
    IF age = NoTime THEN NoTime ELSE Min2(age + 1, timeout + 1)

\* one tick of wall-clock time
ProxyTick ==
    /\ circuit_breakers' = [b \in Backends |->
          [circuit_breakers[b] EXCEPT
              !.since_failure = Aged(@, circuit_breakers[b].timeout)]]
    /\ open_age' = [b \in Backends |->
          Aged(open_age[b], circuit_breakers[b].timeout)]
    /\ UNCHANGED <<now, proxy_target, backend_status, current_connections,
                   success_count, error_count, rr_index, requests, last_result>>
    /\ UNCHANGED <<last_selected, session_store, session_served>>
    /\ UNCHANGED notProxyVars

ProxyNext ==
    \/ \E r \in Requests, k \in 0..(Len(BackendList) - 1) : ProxyRequest(r, k)
    \/ \E r \in Requests, ok \in BOOLEAN, t \in 0..(Len(BackendList) - 1) :
          SelectDone(r, ok, t)
    \/ \E r \in Requests : Response(r)
    \/ \E r \in Requests : Failure(r)
    \/ \E r \in Requests : RetryWake(r)
    \/ \E b \in Backends, passed \in BOOLEAN : HealthProbe(b, passed)
    \/ \E b \in Backends, m \in BOOLEAN : set_backend_maintenance(b, m)
    \/ ProxyTick

\* =================================================================
\* Container orchestrator
\* =================================================================
ContainerNames == {"a", "b"}

\* ContainerConfig.dependencies: the lists a registration may carry
DependencyLists == {<<>>} \cup {<<d>> : d \in ContainerNames}

StartCallers == {"t1"}

\* _startup_worker tasks (max_concurrent_starts of them are created)
Workers == {"w1"}

max_concurrent_starts == Cardinality(Workers)

\* the capacity a deployment wants for the startup queue; the queue is built
\* as asyncio.Queue() with no maxsize, so nothing in the code reads it
QueueCapacity == 1


Put(dict, key, value) ==
    [k \in DOMAIN dict \cup {key} |-> IF k = key THEN value ELSE dict[k]]

\* ContainerStatus after register_container; container_id records whether
\* the field is set.  error_message is not kept: every assignment of the
\* state error is paired with error_message = str(e).  health_status and
\* last_health_check are written by the health check and read by nothing.
ContainerStatus == [state |-> "stopped", container_id |-> FALSE]

register_container(name, dependencies) ==
    /\ registrations < MaxRegistrations
    /\ registrations' = registrations + 1
    /\ configs' = Put(configs, name, dependencies)
    /\ containers' = IF name \in DOMAIN containers THEN containers
                     ELSE Put(containers, name, ContainerStatus)
    /\ UNCHANGED <<startup_queue, start_calls, stop_task, workers>>
    /\ UNCHANGED health_failed
    /\ UNCHANGED notOrchVars

\* ---- start_container
\* One frame per start_container invocation on a caller's stack: the config it
\* read at entry, the index of the dependency _start_dependencies is at, and
\* where the invocation is suspended.
Frame(name) ==
    [name |-> name, dependencies |-> configs[name], i |-> 1, pc |-> "marked"]

\* early is a history field: the last top-level call returned at once because
\* the container was already starting or running
IdleCall == [stack |-> <<>>, result |-> "none", early |-> FALSE]

\* start_container / _start_dependencies from the dependency loop of the top
\* frame up to the next suspension.  x = [stack, containers, queue, result].
RECURSIVE RunLoop(_)
RECURSIVE Returned(_, _)
RunLoop(x) ==
    LET n == Len(x.stack)
        f == x.stack[n]
    IN  IF f.i > Len(f.dependencies)
        THEN Returned([x EXCEPT !.stack = SubSeq(@, 1, n - 1),
                                !.queue = Append(@, f.name)], "True")
        ELSE LET dep == f.dependencies[f.i]
             IN  IF dep \notin DOMAIN x.containers
                    \/ x.containers[dep].state = "running"
                 THEN RunLoop([x EXCEPT !.stack[n].i = f.i + 1])
                 ELSE IF dep \notin DOMAIN configs
                         \/ x.containers[dep].state = "starting"
                      THEN [x EXCEPT !.stack[n].pc = "dep_wait"]
                      ELSE [x EXCEPT
                              !.containers[dep].state = "starting",
                              !.stack = Append([x.stack EXCEPT ![n].pc = "calling"],
                                               Frame(dep))]

\* an invocation returned: the caller's result, or the polling loop of the
\* _start_dependencies that called it
Returned(x, result) ==
    LET n == Len(x.stack)
    IN  IF n = 0 THEN [x EXCEPT !.result = result]
        ELSE LET p == x.stack[n]
                 dep == p.dependencies[p.i]
             IN  IF x.containers[dep].state = "running"
                 THEN RunLoop([x EXCEPT !.stack[n].i = p.i + 1])
                 ELSE [x EXCEPT !.stack[n].pc = "dep_wait"]

Context(t) ==
    [stack |-> start_calls[t].stack, containers |-> containers,
     queue |-> startup_queue, result |-> "pending"]

Resume(t, x) ==
    /\ Len(x.queue) <= MaxQueue
    /\ Len(x.stack) <= MaxDepth
    /\ start_calls' = [start_calls EXCEPT ![t] =
                          [@ EXCEPT !.stack = x.stack, !.result = x.result]]
    /\ containers' = x.containers
    /\ startup_queue' = x.queue

AlreadyActive_RunningOnly(state, force) == state = "running" /\ ~force

\* the early returns of start_container: nothing to do for this state
AlreadyActive(state, force) ==
    \/ state = "running" /\ ~force
    \/ state = "starting"

\* entry of a top-level call, up to the first suspension (_update_status)
StartCall(t, name, force) ==
    /\ start_calls[t].stack = <<>>
    /\ IF name \notin DOMAIN configs
       THEN /\ start_calls' = [start_calls EXCEPT ![t] =
                   [stack |-> <<>>, result |-> "False", early |-> FALSE]]
            /\ UNCHANGED <<containers, startup_queue>>
       ELSE IF AlreadyActive(containers[name].state, force)
            THEN /\ start_calls' = [start_calls EXCEPT ![t] =
                        [stack |-> <<>>, result |-> "True", early |-> TRUE]]
                 /\ UNCHANGED <<containers, startup_queue>>
            ELSE /\ start_calls' = [start_calls EXCEPT ![t] =
                        [stack |-> <<Frame(name)>>, result |-> "pending",
                         early |-> FALSE]]
                 /\ containers' = [containers EXCEPT ![name].state = "starting"]
                 /\ UNCHANGED startup_queue
    /\ UNCHANGED <<registrations, configs, stop_task, workers>>
    /\ UNCHANGED health_failed
    /\ UNCHANGED notOrchVars

\* the invocation on top resumes after _update_status
StartResume(t) ==
    LET n == Len(start_calls[t].stack)
    IN  /\ n > 0
        /\ start_calls[t].stack[n].pc = "marked"
        /\ Resume(t, RunLoop(Context(t)))
        /\ UNCHANGED <<registrations, configs, stop_task, workers>>
        /\ UNCHANGED health_failed
        /\ UNCHANGED notOrchVars

\* one round of the polling loop of _start_dependencies that ends the wait:
\* the dependency is running, or dependency_timeout has passed
DepPoll(t, timed_out) ==
    LET n == Len(start_calls[t].stack)
        f == start_calls[t].stack[n]
        dep == f.dependencies[f.i]
    IN  /\ n > 0
        /\ f.pc = "dep_wait"
        /\ IF containers[dep].state = "running"
           THEN Resume(t, RunLoop([Context(t) EXCEPT !.stack[n].i = f.i + 1]))
           ELSE /\ timed_out
                /\ Resume(t, [Context(t) EXCEPT
                                !.stack[n].pc = "failing",
                                !.containers[f.name].state = "error"])
        /\ UNCHANGED <<registrations, configs, stop_task, workers>>
        /\ UNCHANGED health_failed
        /\ UNCHANGED notOrchVars

\* the except branch returns False after _update_status
StartFailed(t) ==
    LET n == Len(start_calls[t].stack)
    IN  /\ n > 0
        /\ start_calls[t].stack[n].pc = "failing"
        /\ Resume(t, Returned([Context(t) EXCEPT !.stack = SubSeq(@, 1, n - 1)],
                              "False"))
        /\ UNCHANGED <<registrations, configs, stop_task, workers>>
        /\ UNCHANGED health_failed
        /\ UNCHANGED notOrchVars

\* ---- stop_container
IdleStop == [pc |-> "idle", name |-> "none"]

\* entry, up to _update_status after the state is set to stopping
StopCall(name) ==
    /\ stop_task.pc = "idle"
    /\ IF name \notin DOMAIN containers
          \/ containers[name].state = "stopped"
       THEN UNCHANGED <<stop_task, containers>>
       ELSE /\ stop_task' = [pc |-> "stopping", name |-> name]
            /\ containers' = [containers EXCEPT ![name].state = "stopping"]
    /\ UNCHANGED <<registrations, configs, startup_queue, start_calls, workers>>
    /\ UNCHANGED health_failed
    /\ UNCHANGED notOrchVars

\* the runtime stops the container, or raises; it is called only when the
\* status holds a container id
StopFinish(stopped) ==
    LET name == stop_task.name
    IN  /\ stop_task.pc = "stopping"
        /\ stopped \/ containers[name].container_id
        /\ containers' = [containers EXCEPT ![name] =
              IF stopped
              THEN [@ EXCEPT !.state = "stopped", !.container_id = FALSE]
              ELSE [@ EXCEPT !.state = "error"]]
        /\ stop_task' = IdleStop
        /\ UNCHANGED <<registrations, configs, startup_queue, start_calls, workers>>
        /\ UNCHANGED health_failed
        /\ UNCHANGED notOrchVars

\* ---- _startup_worker / _execute_startup
IdleWorker == [pc |-> "idle", name |-> "none"]

StartupOutcome == {"existing_running", "created", "raised"}

FailedStatus_Unchanged(status) == status

\* _execute_startup, the status written by its except branch
FailedStatus(status) == [status EXCEPT !.state = "error"]

QueueGet_Last(queue) ==
    [item |-> queue[Len(queue)], rest |-> SubSeq(queue, 1, Len(queue) - 1)]

\* asyncio.Queue.get on a non-empty queue: the item returned, what is left
QueueGet(queue) == [item |-> Head(queue), rest |-> Tail(queue)]

\* a worker takes the head of the queue and runs _execute_startup up to its
\* first suspension
WorkerTake(w, outcome) ==
    LET name == QueueGet(startup_queue).item
    IN  /\ workers[w].pc = "idle"
        /\ startup_queue # <<>>
        /\ startup_queue' = QueueGet(startup_queue).rest
        /\ CASE outcome = "existing_running" ->
                  /\ containers' = [containers EXCEPT ![name] =
                        [@ EXCEPT !.state = "running", !.container_id = TRUE]]
                  /\ UNCHANGED workers
             [] outcome = "created" ->
                  /\ workers' = [workers EXCEPT ![w] =
                        [pc |-> "waiting", name |-> name]]
                  /\ UNCHANGED containers
             [] OTHER ->
                  /\ containers' = [containers EXCEPT ![name] = FailedStatus(@)]
                  /\ UNCHANGED workers
        /\ UNCHANGED <<registrations, configs, start_calls, stop_task>>
        /\ UNCHANGED health_failed
        /\ UNCHANGED notOrchVars

StartedStatus_NoId(status) == [status EXCEPT !.state = "running"]

\* _execute_startup, the status written once the container is ready
StartedStatus(status) ==
    [status EXCEPT !.state = "running", !.container_id = TRUE]

\* _wait_for_container_ready returns or raises
WorkerReady(w, ready) ==
    LET name == workers[w].name
    IN  /\ workers[w].pc = "waiting"
        /\ containers' = [containers EXCEPT ![name] =
              IF ready
              THEN StartedStatus(@)
              ELSE FailedStatus(@)]
        /\ workers' = [workers EXCEPT ![w] = IdleWorker]
        /\ UNCHANGED <<registrations, configs, startup_queue, start_calls, stop_task>>
        /\ UNCHANGED health_failed
        /\ UNCHANGED notOrchVars

\* ---- _health_check_loop / _perform_health_check on one running container
\* What the runtime and the configured check answer: the container is no
\* longer running, the check fails, the check passes (or none is configured),
\* the container is not found.  Any other exception is logged and changes
\* nothing.  The configured check is of type command (exec_run, no
\* suspension), so a check runs to its end in one step.
HealthOutcome == {"not_running", "probe_failed", "healthy", "not_found"}

HealthCheck(name, outcome) ==
    /\ name \in DOMAIN containers
    /\ containers[name].state = "running"
    /\ containers[name].container_id
    /\ containers' = [containers EXCEPT ![name] =
          CASE outcome = "not_found" ->
                 [@ EXCEPT !.state = "stopped", !.container_id = FALSE]
            [] outcome \in {"not_running", "probe_failed"} ->
                 [@ EXCEPT !.state = "unhealthy"]
            [] OTHER -> @]
    /\ health_failed' = (health_failed \/ outcome # "healthy")
    /\ UNCHANGED <<registrations, configs, startup_queue, start_calls, stop_task, workers>>
    /\ UNCHANGED notOrchVars

OrchInit ==
    /\ registrations = 0
    /\ configs = EmptyDict
    /\ containers = EmptyDict
    /\ startup_queue = <<>>
    /\ start_calls = [t \in StartCallers |-> IdleCall]
    /\ stop_task = IdleStop
    /\ workers = [w \in Workers |-> IdleWorker]
    /\ health_failed = FALSE

OrchNext ==
    \/ \E name \in ContainerNames, deps \in DependencyLists :
          register_container(name, deps)
    \/ \E t \in StartCallers, name \in ContainerNames, force \in BOOLEAN :
          StartCall(t, name, force)
    \/ \E t \in StartCallers : StartResume(t)
    \/ \E t \in StartCallers, timed_out \in BOOLEAN : DepPoll(t, timed_out)
    \/ \E t \in StartCallers : StartFailed(t)
    \/ \E name \in ContainerNames : StopCall(name)
    \/ \E stopped \in BOOLEAN : StopFinish(stopped)
    \/ \E w \in Workers, outcome \in StartupOutcome : WorkerTake(w, outcome)
    \/ \E w \in Workers, ready \in BOOLEAN : WorkerReady(w, ready)
    \/ \E name \in ContainerNames, outcome \in HealthOutcome :
          HealthCheck(name, outcome)

\* =================================================================
\* Service discovery
\* =================================================================
\* the containers labelled selfstart.enable=true, in containers.list order
DiscoveryList == <<"web">>

DiscoveryNames == {DiscoveryList[i] : i \in 1..Len(DiscoveryList)}

\* service_ttl and discovery_interval in ticks
service_ttl == 2

discovery_interval == 1

Remove(dict, key) == [k \in DOMAIN dict \ {key} |-> dict[k]]

\* status_map of _create_service_definition
status_map(container_status) ==
    IF container_status = "running" THEN "running" ELSE "stopped"

\* ServiceDefinition: status, and last_seen kept as its age in ticks
\* (now - last_seen), counted up to service_ttl + 1
ServiceDefinition(status) == [status |-> status, last_seen |-> 0]

\* a stored key: the serialized status and the seconds left of setex
StoreEntry(status) == [status |-> status, ttl |-> service_ttl]

IdleLoop == [pc |-> "idle"]

\* get_service: the local view, else the store; the status reported
get_service(name) ==
    IF name \in DOMAIN services THEN services[name].status
    ELSE IF name \in DOMAIN store_services THEN store_services[name].status
    ELSE "None"

\* ---- _discover_services
\* the loop over the listed containers reaches its next item: the service
\* definition is created and the scan suspends in _store_service; after the
\* last item the local view is replaced
ScanNext(listed, todo, discovered) ==
    IF todo = <<>>
    THEN /\ services' = discovered
         /\ discovery_task' = IdleLoop
         /\ disc_health_task' =
               IF disc_health_task.pc = "idle" THEN disc_health_task
               ELSE [disc_health_task EXCEPT !.replaced = TRUE]
         /\ gone_age' = [n \in DiscoveryNames |->
               IF n \in DOMAIN discovered THEN NoTime
               ELSE IF docker_containers[n] = "absent" /\ gone_age[n] = NoTime
                    THEN 0 ELSE gone_age[n]]
    ELSE /\ discovery_task' =
               [pc |-> "setex", listed |-> listed, todo |-> Tail(todo),
                cur |-> Head(todo),
                discovered |-> Put(discovered, Head(todo),
                                   ServiceDefinition(status_map(listed[Head(todo)])))]
         /\ UNCHANGED <<services, disc_health_task, gone_age>>

\* containers.list(all=True) and the first item
DiscoverStart ==
    LET present == SelectSeq(DiscoveryList,
                             LAMBDA n : docker_containers[n] # "absent")
    IN  /\ discovery_task.pc = "idle"
        /\ ScanNext(docker_containers, present, EmptyDict)
        /\ UNCHANGED <<docker_containers, store_services, store_index, cleanup_task>>
        /\ UNCHANGED notDiscVars

\* _store_service resumes after setex
DiscoverStored ==
    LET t == discovery_task
    IN  /\ t.pc = "setex"
        /\ store_services' =
              Put(store_services, t.cur, StoreEntry(t.discovered[t.cur].status))
        /\ discovery_task' = [t EXCEPT !.pc = "sadd"]
        /\ UNCHANGED <<docker_containers, services, store_index, disc_health_task,
                       cleanup_task, gone_age>>
        /\ UNCHANGED notDiscVars

\* _store_service resumes after sadd; the scan goes on
DiscoverIndexed ==
    LET t == discovery_task
    IN  /\ t.pc = "sadd"
        /\ store_index' = store_index \cup {t.cur}
        /\ ScanNext(t.listed, t.todo, t.discovered)
        /\ UNCHANGED <<docker_containers, store_services, cleanup_task>>
        /\ UNCHANGED notDiscVars

\* ---- _check_services_health
\* The pass iterates the dict that was self.services when it began: view
\* holds that dict's objects, replaced tells that a scan has bound
\* self.services to another dict since, resized that a key was deleted from
\* the dict under iteration (the next step of the iteration raises).
HealthItem(view, todo, replaced) ==
    [pc |-> "probe", view |-> view, todo |-> Tail(todo), cur |-> Head(todo),
     replaced |-> replaced, resized |-> FALSE]

StatusAfterProbe(status, passed) ==
    IF ~passed /\ status = "running" THEN "unhealthy"
    ELSE IF passed /\ status = "unhealthy" THEN "running"
    ELSE status

DiscHealthStart ==
    LET names == SelectSeq(DiscoveryList, LAMBDA n : n \in DOMAIN services)
    IN  /\ disc_health_task.pc = "idle"
        /\ names # <<>>
        /\ disc_health_task' = HealthItem(services, names, FALSE)
        /\ UNCHANGED <<docker_containers, services, store_services, store_index,
                       discovery_task, cleanup_task, gone_age>>
        /\ UNCHANGED notDiscVars

\* the endpoints were probed: status and last_seen are written to the object,
\* which is also in self.services unless the dict was replaced or the key
\* deleted; the pass suspends in _store_service
DiscHealthProbed(passed) ==
    LET t == disc_health_task
        obj == [status |-> StatusAfterProbe(t.view[t.cur].status, passed),
                last_seen |-> 0]
    IN  /\ t.pc = "probe"
        /\ disc_health_task' = [t EXCEPT !.pc = "setex", !.view[t.cur] = obj]
        /\ services' = IF ~t.replaced /\ t.cur \in DOMAIN services
                       THEN [services EXCEPT ![t.cur] = obj]
                       ELSE services
        /\ UNCHANGED <<docker_containers, store_services, store_index,
                       discovery_task, cleanup_task, gone_age>>
        /\ UNCHANGED notDiscVars

DiscHealthStored ==
    LET t == disc_health_task
    IN  /\ t.pc = "setex"
        /\ store_services' =
              Put(store_services, t.cur, StoreEntry(t.view[t.cur].status))
        /\ disc_health_task' = [t EXCEPT !.pc = "sadd"]
        /\ UNCHANGED <<docker_containers, services, store_index, discovery_task,
                       cleanup_task, gone_age>>
        /\ UNCHANGED notDiscVars

DiscHealthIndexed ==
    LET t == disc_health_task
    IN  /\ t.pc = "sadd"
        /\ store_index' = store_index \cup {t.cur}
        /\ disc_health_task' =
              IF t.resized \/ t.todo = <<>> THEN IdleLoop
              ELSE HealthItem(t.view, t.todo, t.replaced)
        /\ UNCHANGED <<docker_containers, services, store_services,
                       discovery_task, cleanup_task, gone_age>>
        /\ UNCHANGED notDiscVars

\* ---- _cleanup_stale_services
\* del self.services[name] for the next stale name, then the suspension in
\* redis.delete; a name that is no longer a key raises and ends the pass
CleanupItem(stale) ==
    IF stale = <<>> \/ Head(stale) \notin DOMAIN services
    THEN /\ cleanup_task' = IdleLoop
         /\ UNCHANGED <<services, disc_health_task>>
    ELSE /\ cleanup_task' = [pc |-> "delete", cur |-> Head(stale),
                             stale |-> Tail(stale)]
         /\ services' = Remove(services, Head(stale))
         /\ disc_health_task' =
               IF disc_health_task.pc = "idle" \/ disc_health_task.replaced
               THEN disc_health_task
               ELSE [disc_health_task EXCEPT !.resized = TRUE]

CleanupStart ==
    LET stale == SelectSeq(DiscoveryList,
                    LAMBDA n : /\ n \in DOMAIN services
                               /\ services[n].last_seen > service_ttl)
    IN  /\ cleanup_task.pc = "idle"
        /\ stale # <<>>
        /\ CleanupItem(stale)
        /\ UNCHANGED <<docker_containers, store_services, store_index,
                       discovery_task, gone_age>>
        /\ UNCHANGED notDiscVars

CleanupDeleted ==
    /\ cleanup_task.pc = "delete"
    /\ store_services' = Remove(store_services, cleanup_task.cur)
    /\ cleanup_task' = [cleanup_task EXCEPT !.pc = "srem"]
    /\ UNCHANGED <<docker_containers, services, store_index, discovery_task,
                   disc_health_task, gone_age>>
    /\ UNCHANGED notDiscVars

CleanupRemoved ==
    /\ cleanup_task.pc = "srem"
    /\ store_index' = store_index \ {cleanup_task.cur}
    /\ CleanupItem(cleanup_task.stale)
    /\ UNCHANGED <<docker_containers, store_services, discovery_task, gone_age>>
    /\ UNCHANGED notDiscVars

\* ---- the environment
ContainerStatuses == {"running", "exited", "absent"}

\* the runtime starts, stops, creates or removes a container
DockerChange(n, status) ==
    /\ docker_containers[n] # status
    /\ docker_containers' = [docker_containers EXCEPT ![n] = status]
    /\ gone_age' = IF status = "absent" THEN gone_age
                   ELSE [gone_age EXCEPT ![n] = NoTime]
    /\ UNCHANGED <<services, store_services, store_index, discovery_task,
                   disc_health_task, cleanup_task>>
    /\ UNCHANGED notDiscVars

AgeServices(dict) ==
    [n \in DOMAIN dict |->
        [dict[n] EXCEPT !.last_seen = Min2(@ + 1, service_ttl + 1)]]

\* one tick of wall-clock time: last_seen grows older and the store expires
\* the keys whose TTL has run out
DiscTick ==
    /\ services' = AgeServices(services)
    /\ store_services' =
          [n \in {m \in DOMAIN store_services : store_services[m].ttl > 1} |->
              [store_services[n] EXCEPT !.ttl = @ - 1]]
    /\ discovery_task' =
          IF discovery_task.pc = "idle" THEN discovery_task
          ELSE [discovery_task EXCEPT !.discovered = AgeServices(@)]
    /\ disc_health_task' =
          IF disc_health_task.pc = "idle" THEN disc_health_task
          ELSE [disc_health_task EXCEPT !.view = AgeServices(@)]
    /\ gone_age' = [n \in DiscoveryNames |->
          Aged(gone_age[n], service_ttl + discovery_interval)]
    /\ UNCHANGED <<docker_containers, store_index, cleanup_task>>
    /\ UNCHANGED notDiscVars

DiscInit ==
    /\ docker_containers \in [DiscoveryNames -> ContainerStatuses]
    /\ services = EmptyDict
    /\ store_services = EmptyDict
    /\ store_index = {}
    /\ discovery_task = IdleLoop
    /\ disc_health_task = IdleLoop
    /\ cleanup_task = IdleLoop
    /\ gone_age = [n \in DiscoveryNames |-> NoTime]

DiscNext ==
    \/ DiscoverStart
    \/ DiscoverStored
    \/ DiscoverIndexed
    \/ DiscHealthStart
    \/ \E passed \in BOOLEAN : DiscHealthProbed(passed)
    \/ DiscHealthStored
    \/ DiscHealthIndexed
    \/ CleanupStart
    \/ CleanupDeleted
    \/ CleanupRemoved
    \/ \E n \in DiscoveryNames, status \in ContainerStatuses : DockerChange(n, status)
    \/ DiscTick

\* =================================================================
\* Auto-shutdown
\* =================================================================
ShutdownContainers == {"c1"}

\* ShutdownRule with action stop; thresholds and min_uptime in small units
ShutdownRule(condition, grace_period, notification, connected, uploading) ==
    [condition |-> condition, action |-> "stop",
     cpu_threshold |-> 5, memory_threshold |-> 100, network_threshold |-> 1,
     grace_period |-> grace_period, notification |-> notification,
     protect_if_connected |-> connected, protect_if_uploading |-> uploading,
     min_uptime |-> 1]

RuleSet ==
    {ShutdownRule(c, g, n, pc, pu) :
        c \in {"low_resources", "idle_time"}, g \in {0, 1}, n \in BOOLEAN,
        pc \in BOOLEAN, pu \in BOOLEAN}

\* what the runtime reports for a container
RuntimeStats(running, cpu, tx, uptime, connections) ==
    [running |-> running, cpu_percent |-> cpu, memory_usage |-> 50,
     network_rx_bytes |-> 0, network_tx_bytes |-> tx, uptime |-> uptime,
     connections |-> connections]

RuntimeSet ==
    {RuntimeStats(r, cpu, tx, up, conn) :
        r \in BOOLEAN, cpu \in {1, 9}, tx \in {0, 11}, up \in {0, 1},
        conn \in {0, 1}}

\* _get_container_detailed_stats: a fresh ContainerStats, is_protected False
ContainerStats(rt) ==
    [cpu_percent |-> rt.cpu_percent, memory_usage |-> rt.memory_usage,
     network_rx_bytes |-> rt.network_rx_bytes,
     network_tx_bytes |-> rt.network_tx_bytes, uptime |-> rt.uptime,
     connections |-> rt.connections, is_protected |-> FALSE]

_is_container_protected(rule, stats) ==
    \/ stats.is_protected
    \/ stats.uptime < rule.min_uptime
    \/ rule.protect_if_connected /\ stats.connections > 0
    \/ rule.protect_if_uploading
          /\ stats.network_tx_bytes > rule.network_threshold * 10

_check_low_resources_condition(rule, stats) ==
    /\ stats.cpu_percent <= rule.cpu_threshold
    /\ stats.memory_usage <= rule.memory_threshold

_check_idle_time_condition(rule, stats) ==
    /\ stats.cpu_percent <= rule.cpu_threshold
    /\ stats.network_rx_bytes + stats.network_tx_bytes <= rule.network_threshold
    /\ stats.connections = 0

\* _should_shutdown_container on the stats dict given
_should_shutdown_container(rule, all_stats, container_name) ==
    /\ container_name \in DOMAIN all_stats
    /\ ~_is_container_protected(rule, all_stats[container_name])
    /\ IF rule.condition = "low_resources"
       THEN _check_low_resources_condition(rule, all_stats[container_name])
       ELSE _check_idle_time_condition(rule, all_stats[container_name])

\* _update_container_stats: fresh stats for the running containers; the
\* entries of the others stay as they were
UpdatedStats ==
    [c \in DOMAIN container_stats
           \cup {x \in ShutdownContainers : runtime_stats[x].running} |->
        IF runtime_stats[c].running THEN ContainerStats(runtime_stats[c])
        ELSE container_stats[c]]

IdleShutdown == [pc |-> "idle", container |-> "none"]

\* where _execute_shutdown first suspends
ShutdownEntry(rule) ==
    IF rule.notification THEN "notify"
    ELSE IF rule.grace_period > 0 THEN "grace"
    ELSE "acting"

\* _check_all_rules from the stats update to the first suspension of
\* _execute_shutdown, for the container the rule selects
CheckAllRules(c) ==
    /\ shutdown_task.pc = "idle"
    /\ Len(shutdown_logs) < MaxLogs
    /\ container_stats' = UpdatedStats
    /\ shutdown_task' =
          IF _should_shutdown_container(shutdown_rule, UpdatedStats, c)
          THEN [pc |-> ShutdownEntry(shutdown_rule), container |-> c]
          ELSE IdleShutdown
    /\ UNCHANGED <<shutdown_rule, runtime_stats, shutdown_logs>>
    /\ UNCHANGED notShutdownVars

\* _send_shutdown_notification returned
ShutdownNotified ==
    /\ shutdown_task.pc = "notify"
    /\ shutdown_task' = [shutdown_task EXCEPT !.pc =
          IF shutdown_rule.grace_period > 0 THEN "grace" ELSE "acting"]
    /\ UNCHANGED <<shutdown_rule, runtime_stats, container_stats, shutdown_logs>>
    /\ UNCHANGED notShutdownVars

\* asyncio.sleep(grace_period) is over: _perform_shutdown_action is called
GraceOver ==
    /\ shutdown_task.pc = "grace"
    /\ shutdown_task' = [shutdown_task EXCEPT !.pc = "acting"]
    /\ UNCHANGED <<shutdown_rule, runtime_stats, container_stats, shutdown_logs>>
    /\ UNCHANGED notShutdownVars

\* the row _execute_shutdown writes after _perform_shutdown_action returned:
\* error_message is passed as None whatever the outcome
ShutdownLog(success) == [success |-> success, error_message |-> FALSE]

\* the row written by the except branch of _execute_shutdown
FailureLog == [success |-> FALSE, error_message |-> TRUE]

\* _perform_shutdown_action returned (an exception of the runtime is caught
\* there and gives False); the log is written and the rule's last_triggered
\* updated.  raised: that update fails in the database, and the except
\* branch of _execute_shutdown writes a log of its own.
ShutdownDone(success, raised) ==
    LET c == shutdown_task.container
    IN  /\ shutdown_task.pc = "acting"
        /\ runtime_stats' =
              IF success THEN [runtime_stats EXCEPT ![c].running = FALSE]
              ELSE runtime_stats
        /\ shutdown_logs' =
              IF raised
              THEN shutdown_logs \o <<ShutdownLog(success), FailureLog>>
              ELSE Append(shutdown_logs, ShutdownLog(success))
        /\ shutdown_task' = IdleShutdown
        /\ UNCHANGED <<shutdown_rule, container_stats>>
        /\ UNCHANGED notShutdownVars

\* the container's load, traffic, connections or run state changes
RuntimeChange(c, rt) ==
    /\ runtime_stats[c] # rt
    /\ runtime_stats' = [runtime_stats EXCEPT ![c] = rt]
    /\ UNCHANGED <<shutdown_rule, container_stats, shutdown_task, shutdown_logs>>
    /\ UNCHANGED notShutdownVars

\* another subsystem sets or clears is_protected on the stats it obtained
\* from get_container_stats
SetProtected(c, flag) ==
    /\ c \in DOMAIN container_stats
    /\ container_stats[c].is_protected # flag
    /\ container_stats' = [container_stats EXCEPT ![c].is_protected = flag]
    /\ UNCHANGED <<shutdown_rule, runtime_stats, shutdown_task, shutdown_logs>>
    /\ UNCHANGED notShutdownVars

ShutdownInit ==
    /\ shutdown_rule \in RuleSet
    /\ runtime_stats \in [ShutdownContainers -> RuntimeSet]
    /\ container_stats = EmptyDict
    /\ shutdown_task = IdleShutdown
    /\ shutdown_logs = <<>>

ShutdownNext ==
    \/ \E c \in ShutdownContainers : CheckAllRules(c)
    \/ ShutdownNotified
    \/ GraceOver
    \/ \E success \in BOOLEAN, raised \in BOOLEAN : ShutdownDone(success, raised)
    \/ \E c \in ShutdownContainers, rt \in RuntimeSet : RuntimeChange(c, rt)
    \/ \E c \in ShutdownContainers, flag \in BOOLEAN : SetProtected(c, flag)

\* =================================================================
\* Plugin manager: the subscribers of one hook point
\* =================================================================
Plugins == {"p1", "p2"}

\* plugin instances created by _activate_plugin, at most
MaxInstances == 3

NoInstance == 0

\* a bound method of a plugin instance, as get_hooks returns it
Callback(plugin, instance) == [plugin |-> plugin, instance |-> instance]

Subscribe_First(callbacks, callback) == <<callback>> \o callbacks

\* _activate_plugin: self.hooks[hook_type].append(callback)
Subscribe(callbacks, callback) == Append(callbacks, callback)

\* not iterating, no list held, results of the call that returned last
IdleTrigger ==
    [pc |-> "idle", callbacks |-> <<>>, shared |-> FALSE, i |-> 0,
     results |-> <<>>]

IdleDeactivate == [pc |-> "idle", plugin |-> "none"]

\* the list object trigger_hook iterates over: self.hooks[hook_type] itself
\* until _deactivate_plugin rebinds the key, and the old object afterwards
IteratedCallbacks ==
    IF trigger_task.shared THEN hooks ELSE trigger_task.callbacks

\* _activate_plugin resumes after initialize(): the new instance becomes the
\* active one and its callback is registered; nothing when initialize()
\* returned False
_activate_plugin(plugin, initialized) ==
    /\ instances < MaxInstances
    /\ instances' = instances + 1
    /\ IF initialized
       THEN /\ active_plugins' = [active_plugins EXCEPT ![plugin] = instances + 1]
            /\ hooks' = Subscribe(hooks, Callback(plugin, instances + 1))
       ELSE UNCHANGED <<active_plugins, hooks>>
    /\ UNCHANGED <<trigger_task, deactivate_task>>
    /\ UNCHANGED notPluginVars

\* _deactivate_plugin up to await plugin_instance.cleanup(): every list of
\* self.hooks is replaced by a new list without the instance's callbacks
_deactivate_plugin(plugin) ==
    /\ deactivate_task.pc = "idle"
    /\ active_plugins[plugin] # NoInstance
    /\ hooks' = SelectSeq(hooks,
                          LAMBDA c : c.instance # active_plugins[plugin])
    /\ trigger_task' =
          IF trigger_task.shared
          THEN [trigger_task EXCEPT !.shared = FALSE, !.callbacks = hooks]
          ELSE trigger_task
    /\ deactivate_task' = [pc |-> "cleanup", plugin |-> plugin]
    /\ UNCHANGED <<active_plugins, instances>>
    /\ UNCHANGED notPluginVars

\* cleanup() returned or raised
DeactivateFinish(raised) ==
    /\ deactivate_task.pc = "cleanup"
    /\ active_plugins' =
          IF raised THEN active_plugins
          ELSE [active_plugins EXCEPT ![deactivate_task.plugin] = NoInstance]
    /\ deactivate_task' = IdleDeactivate
    /\ UNCHANGED <<hooks, instances, trigger_task>>
    /\ UNCHANGED notPluginVars

\* what trigger_hook appends for a callback: its result, or {"error": str(e)}
HookResult(callback, raised) == [callback |-> callback, error |-> raised]

\* trigger_hook from its entry to the first callback's suspension
trigger_hook ==
    /\ trigger_task.pc \in {"idle", "returned"}
    /\ trigger_task' =
          IF hooks = <<>>
          THEN [IdleTrigger EXCEPT !.pc = "returned"]
          ELSE [pc |-> "calling", callbacks |-> <<>>, shared |-> TRUE, i |-> 1,
                results |-> <<>>]
    /\ UNCHANGED <<hooks, active_plugins, instances, deactivate_task>>
    /\ UNCHANGED notPluginVars

\* the callback under way returns or raises; the loop goes on to the next
\* element of the list it iterates over, or returns the results
CallbackDone(raised) ==
    LET list == IteratedCallbacks
        i == trigger_task.i
    IN  /\ trigger_task.pc = "calling"
        /\ trigger_task' =
              [trigger_task EXCEPT
                  !.results = Append(@, HookResult(list[i], raised)),
                  !.i = i + 1,
                  !.pc = IF i + 1 > Len(list) THEN "returned" ELSE "calling",
                  !.callbacks = IF i + 1 > Len(list) THEN list ELSE @,
                  !.shared = IF i + 1 > Len(list) THEN FALSE ELSE @]
        /\ UNCHANGED <<hooks, active_plugins, instances, deactivate_task>>
        /\ UNCHANGED notPluginVars

PluginInit ==
    /\ hooks = <<>>
    /\ active_plugins = [p \in Plugins |-> NoInstance]
    /\ instances = 0
    /\ trigger_task = IdleTrigger
    /\ deactivate_task = IdleDeactivate

PluginNext ==
    \/ \E p \in Plugins, initialized \in BOOLEAN : _activate_plugin(p, initialized)
    \/ \E p \in Plugins : _deactivate_plugin(p)
    \/ \E raised \in BOOLEAN : DeactivateFinish(raised)
    \/ trigger_hook
    \/ \E raised \in BOOLEAN : CallbackDone(raised)

\* =================================================================
\* Specifications
\* =================================================================
vars == <<now, scalerVars, proxyVars, orchVars, discVars, shutdownVars, pluginVars>>

\* the other subsystems at rest, in one fixed configuration
ScalerQuiet ==
    /\ ScalerInit
    /\ scaling_policies = [s \in Services |-> ScalingPolicy(1, 2, 2, 3, TRUE)]
    /\ service_running = [s \in Services |-> TRUE]

ProxyQuiet ==
    /\ ProxyInit
    /\ proxy_target = ProxyTarget("round_robin", 0, 2, FALSE)

DiscQuiet ==
    /\ DiscInit
    /\ docker_containers = [n \in DiscoveryNames |-> "running"]

ShutdownQuiet ==
    /\ ShutdownInit
    /\ shutdown_rule = ShutdownRule("idle_time", 1, TRUE, TRUE, TRUE)
    /\ runtime_stats = [c \in ShutdownContainers |-> RuntimeStats(TRUE, 1, 0, 1, 0)]

InitScaler ==
    now = 0 /\ ScalerInit /\ ProxyQuiet /\ OrchInit /\ DiscQuiet /\ ShutdownQuiet /\ PluginInit

SpecScaler == InitScaler /\ [][ScalerNext]_vars

\* one evaluation of a service with prediction disabled, from any history of
\* samples on each axis, a replica count at either limit and a last action
\* inside or outside the cooldown
DecisionSamples ==
    {ScalingMetrics(cpu, mem, net[1], net[2]) :
        cpu \in {20, 90}, mem \in {20, 90},
        net \in {<<0, 0>>, <<0, 150>>, <<25, 10>>}}

\* histories one sample short of evaluation_periods, and full ones
DecisionHistories ==
    UNION {[1..n -> DecisionSamples] : n \in {2, 3}}

InitDecision ==
    /\ now \in {0, 2}
    /\ scaling_policies \in
          [Services -> {p \in PolicySet : ~p.enable_prediction}]
    /\ metrics_history \in [Services -> DecisionHistories]
    /\ last_scaling_actions \in [Services -> {NoTime, 0}]
    /\ current_replicas \in [Services -> {NoEntry, 2}]
    /\ service_running = [s \in Services |-> TRUE]
    /\ last_event = NoEvent
    /\ scaling_events = [s \in Services |-> <<>>]
    /\ eval_task = IdleTask
    /\ manual_task = IdleTask
    /\ ProxyQuiet /\ OrchInit /\ DiscQuiet /\ ShutdownQuiet /\ PluginInit

DecisionNext == \E s \in Services : EvalDecide(s)

SpecDecision == InitDecision /\ [][DecisionNext]_vars

InitProxy ==
    now = 0 /\ ScalerQuiet /\ ProxyInit /\ OrchInit /\ DiscQuiet /\ ShutdownQuiet /\ PluginInit

SpecProxy == InitProxy /\ [][ProxyNext]_vars

InitOrch ==
    now = 0 /\ ScalerQuiet /\ ProxyQuiet /\ OrchInit /\ DiscQuiet /\ ShutdownQuiet /\ PluginInit

SpecOrch == InitOrch /\ [][OrchNext]_vars

InitDisc ==
    now = 0 /\ ScalerQuiet /\ ProxyQuiet /\ OrchInit /\ DiscInit /\ ShutdownQuiet /\ PluginInit

SpecDisc == InitDisc /\ [][DiscNext]_vars

InitShutdown ==
    now = 0 /\ ScalerQuiet /\ ProxyQuiet /\ OrchInit /\ DiscQuiet /\ ShutdownInit
      /\ PluginInit

SpecShutdown == InitShutdown /\ [][ShutdownNext]_vars

\* The orchestrator while it runs and the runtime's calls return: a coroutine
\* that is ready is resumed by the event loop, the dependency wait ends at the
\* latest when dependency_timeout has passed, a stop returns, and each worker
\* polls the queue every second and ends the startup it executes.
OrchFairness ==
    /\ \A t \in StartCallers :
          /\ WF_vars(StartResume(t))
          /\ WF_vars(\E timed_out \in BOOLEAN : DepPoll(t, timed_out))
          /\ WF_vars(StartFailed(t))
    /\ WF_vars(\E stopped \in BOOLEAN : StopFinish(stopped))
    /\ \A w \in Workers :
          /\ WF_vars(\E outcome \in StartupOutcome : WorkerTake(w, outcome))
          /\ WF_vars(\E ready \in BOOLEAN : WorkerReady(w, ready))

\* every container registered, with any of the dependency lists, and none
\* started yet
OrchLiveInit ==
    /\ registrations = MaxRegistrations
    /\ configs \in [ContainerNames -> DependencyLists]
    /\ containers = [name \in ContainerNames |-> ContainerStatus]
    /\ startup_queue = <<>>
    /\ start_calls = [t \in StartCallers |-> IdleCall]
    /\ stop_task = IdleStop
    /\ workers = [w \in Workers |-> IdleWorker]
    /\ health_failed = FALSE

\* the calls and tasks that set, or wait on, the state starting; the health
\* loop visits running containers only
OrchLiveNext ==
    \/ \E t \in StartCallers, name \in ContainerNames, force \in BOOLEAN :
          StartCall(t, name, force)
    \/ \E t \in StartCallers : StartResume(t)
    \/ \E t \in StartCallers, timed_out \in BOOLEAN : DepPoll(t, timed_out)
    \/ \E t \in StartCallers : StartFailed(t)
    \/ \E name \in ContainerNames : StopCall(name)
    \/ \E stopped \in BOOLEAN : StopFinish(stopped)
    \/ \E w \in Workers, outcome \in StartupOutcome : WorkerTake(w, outcome)
    \/ \E w \in Workers, ready \in BOOLEAN : WorkerReady(w, ready)

InitOrchLive ==
    now = 0 /\ ScalerQuiet /\ ProxyQuiet /\ OrchLiveInit /\ DiscQuiet /\ ShutdownQuiet
      /\ PluginInit

SpecOrchLive == InitOrchLive /\ [][OrchLiveNext]_vars /\ OrchFairness

InitPlugin ==
    now = 0 /\ ScalerQuiet /\ ProxyQuiet /\ OrchInit /\ DiscQuiet /\ ShutdownQuiet
      /\ PluginInit

SpecPlugin == InitPlugin /\ [][PluginNext]_vars

\* =================================================================
\* Properties
\* =================================================================

\* ---- auto-scaler (SpecScaler)

\* C1: for every service the recorded replica count stays within
\* [min_replicas, max_replicas] of its policy, after automatic and manual
\* scaling alike.
C1_ReplicasWithinLimits ==
    \A s \in Services :
        current_replicas[s] # NoEntry =>
            /\ scaling_policies[s].min_replicas <= current_replicas[s]
            /\ current_replicas[s] <= scaling_policies[s].max_replicas

\* C2: an automatic scaling action never takes effect on a service less than
\* min(scale_up_cooldown, scale_down_cooldown) after the last successful
\* scale action recorded for that service.
C2_CooldownRespected ==
    [][\A s \in Services :
          ( /\ eval_task.pc = "recording"
            /\ eval_task.service = s
            /\ eval_task.success
            /\ eval_task'.pc = "idle"
            /\ last_scaling_actions[s] # NoTime )
          => now - last_scaling_actions[s]
                >= Min2(scaling_policies[s].scale_up_cooldown,
                        scaling_policies[s].scale_down_cooldown)]_vars

\* ---- reverse proxy (SpecProxy)

\* C3: a response returned by proxy_request never comes from a backend that
\* was not healthy when the request was sent to it while the target had a
\* healthy backend.
C3_ResponseFromHealthy ==
    last_result.result = "response" => ~last_result.misrouted

\* C4: no request is sent, at first selection or by a retry, to a backend
\* whose status is maintenance (set by SetMaintenance(on), not yet off).
C4_MaintenanceNeverUsed ==
    [][\A r \in Requests, b \in Backends :
          ( /\ requests[r].pc # "inflight"
            /\ requests'[r].pc = "inflight"
            /\ requests'[r].backend = b )
          => backend_status[b] # "maintenance"]_vars

\* C5: a proxy_request made while no backend is healthy returns 503 and
\* changes no backend counter, connection count or circuit breaker, and sends
\* nothing.
C5_NoHealthyBackend503 ==
    [][\A r \in Requests, k \in 0..(Len(BackendList) - 1) :
          ( /\ \A b \in Backends : backend_status[b] # "healthy"
            /\ ProxyRequest(r, k) )
          => /\ last_result'.result = "503_no_healthy"
             /\ UNCHANGED <<success_count, error_count, current_connections,
                            circuit_breakers, requests>>]_vars

C5_Witness ==
    /\ last_result.result = "503_no_healthy"
    /\ \A b \in Backends : backend_status[b] # "healthy"

\* C6: when a backend's reply is received, its circuit breaker is closed with
\* failure counter 0 right afterwards, whatever its state was before.
C6_SuccessClosesBreaker ==
    [][\A b \in Backends :
          success_count'[b] > success_count[b]
          => /\ circuit_breakers'[b].state = "closed"
             /\ circuit_breakers'[b].failure_count = 0]_vars

C6_Witness ==
    /\ last_result.result = "response"
    /\ last_result.cb_before = "open"

\* a step that routes request r to backend b
Routed(r, b) ==
    \/ /\ requests[r].pc = "retry_sleep"
       /\ requests[r].backend = b
       /\ RetryWake(r)
    \/ /\ requests[r].pc = "selecting"
       /\ \E ok \in BOOLEAN, t \in 0..(Len(BackendList) - 1) :
             /\ _round_robin_select(requests[r].snapshot, ok, t) = b
             /\ SelectDone(r, ok, t)
    \/ /\ requests[r].pc = "idle"
       /\ proxy_target.rule # "round_robin"
       /\ get_healthy_backends # <<>>
       /\ \E k \in 0..(Len(BackendList) - 1) :
             /\ SelectSync(get_healthy_backends, k) = b
             /\ ProxyRequest(r, k)

\* C7: while a breaker is open and its timeout has not elapsed since it
\* opened, a request routed to its backend is refused with 503 and not sent,
\* and the breaker does not become half-open.
C7_OpenRefuses ==
    [][\A b \in Backends :
          ( /\ circuit_breakers[b].state = "open"
            /\ open_age[b] < circuit_breakers[b].timeout )
          => /\ circuit_breakers'[b].state # "half-open"
             /\ \A r \in Requests :
                   /\ Routed(r, b) =>
                         /\ last_result'.result = "503_circuit_open"
                         /\ requests'[r].pc = "idle"
                   /\ requests[r].pc # "inflight" =>
                         ~(requests'[r].pc = "inflight"
                              /\ requests'[r].backend = b)]_vars

C7_Witness ==
    /\ last_result.result = "503_circuit_open"
    /\ \E b \in Backends :
          /\ circuit_breakers[b].state = "open"
          /\ open_age[b] # NoTime
          /\ open_age[b] < circuit_breakers[b].timeout

\* C8: at most one request admitted by a half-open breaker is in flight to
\* its backend at a time.
C8_OneTrial ==
    \A b \in Backends :
        Cardinality({r \in Requests : /\ requests[r].pc = "inflight"
                                      /\ requests[r].backend = b
                                      /\ requests[r].trial}) <= 1

\* ---- container orchestrator (SpecOrch)

\* C9: start_container without force on a container that is starting or
\* running returns True at once, leaves every container state unchanged and
\* puts nothing on the startup queue.
C9_StartIdempotent ==
    [][\A t \in StartCallers, name \in ContainerNames :
          ( /\ name \in DOMAIN configs
            /\ containers[name].state \in {"starting", "running"}
            /\ StartCall(t, name, FALSE) )
          => /\ start_calls'[t].stack = <<>>
             /\ start_calls'[t].result = "True"
             /\ containers' = containers
             /\ startup_queue' = startup_queue]_vars

C9_Witness ==
    \E t \in StartCallers :
        /\ start_calls[t].early
        /\ start_calls[t].result = "True"
        /\ start_calls[t].stack = <<>>

\* the containers a registered configuration names as dependencies
Dependencies(name) ==
    IF name \in DOMAIN configs
    THEN {configs[name][i] : i \in DOMAIN configs[name]} ELSE {}

RECURSIVE Closure(_, _)
Closure(S, k) ==
    IF k = 0 THEN S
    ELSE Closure(S \cup UNION {Dependencies(m) : m \in S}, k - 1)

\* C10: the registry never holds a configuration that depends on itself,
\* directly or through other registered configurations.
C10_NoDependencyCycle ==
    \A name \in DOMAIN configs :
        name \notin Closure(Dependencies(name), Cardinality(ContainerNames))

\* a step that puts name on the startup queue
Enqueued(name) ==
    /\ Len(startup_queue') > Len(startup_queue)
    /\ \E i \in (Len(startup_queue) + 1)..Len(startup_queue') :
          startup_queue'[i] = name

\* C11: start_container puts a container on the startup queue only when
\* every dependency of its configuration is in state running.
C11_EnqueuedAfterDependencies ==
    [][\A name \in ContainerNames :
          Enqueued(name) =>
              \A dep \in Dependencies(name) :
                  /\ dep \in DOMAIN containers
                  /\ containers[dep].state = "running"]_vars

\* ---- service discovery (SpecDisc)

\* C12: once a scan has missed a removed container, the service is reported
\* with status stopped for as long as it is reported at all, and more than
\* service_ttl plus one discovery cycle later it is gone from the local view,
\* from the store keys and from the store index.
C12_AbsentServiceEvicted ==
    \A n \in DiscoveryNames :
        gone_age[n] # NoTime =>
            /\ get_service(n) \in {"None", "stopped"}
            /\ gone_age[n] > service_ttl + discovery_interval =>
                  /\ n \notin DOMAIN services
                  /\ n \notin DOMAIN store_services
                  /\ n \notin store_index

\* ---- auto-shutdown (SpecShutdown)

\* the stats of the container as a read at this moment would give them, with
\* the is_protected flag the stats object carries
CurrentStats(c) ==
    [ContainerStats(runtime_stats[c]) EXCEPT
        !.is_protected = container_stats[c].is_protected]

\* C13: when a rule's shutdown action fires on a container, the container is
\* not protected at that moment (explicit flag, uptime below min_uptime,
\* active connections, upload in progress).
C13_NoShutdownWhileProtected ==
    [][\A c \in ShutdownContainers :
          ( /\ shutdown_task.pc # "acting"
            /\ shutdown_task'.pc = "acting"
            /\ shutdown_task'.container = c )
          => ~(_is_container_protected(shutdown_rule, CurrentStats(c)))']_vars

\* ---- auto-scaler (SpecScaler), continued

\* C14: when an automatic scale action has failed, its event is recorded with
\* success false and the step leaves the service's replica count, its timer
\* and hence the outcome of the cooldown test as they were.
C14_FailedScaleLeavesTimer ==
    [][\A s \in Services :
          ( /\ eval_task.pc = "recording"
            /\ eval_task.service = s
            /\ ~eval_task.success
            /\ eval_task'.pc = "idle" )
          => /\ last_event'.service_name = s
             /\ last_event'.trigger # "manual"
             /\ ~last_event'.success
             /\ current_replicas'[s] = current_replicas[s]
             /\ last_scaling_actions'[s] = last_scaling_actions[s]]_vars

C14_Witness ==
    \E s \in Services :
        /\ last_event = ScalingEvent(s, "up", "cpu_threshold", FALSE)
        /\ eval_task.pc = "idle"
        /\ last_scaling_actions[s] = NoTime
        /\ _make_scaling_decision(s, scaling_policies[s]) = "up"

\* the mean over the window of the last evaluation_periods samples, compared
\* with a threshold without division
Window(s) ==
    LastN(metrics_history[s], scaling_policies[s].evaluation_periods)

MeanCpuTimesN(s) == SumSeq([i \in 1..Len(Window(s)) |-> Window(s)[i].cpu_percent])

MeanMemoryTimesN(s) ==
    SumSeq([i \in 1..Len(Window(s)) |-> Window(s)[i].memory_percent])

MeanNetworkTimesN(s) ==
    SumSeq([i \in 1..Len(Window(s)) |->
               Max2(Window(s)[i].network_in_mbps, Window(s)[i].network_out_mbps)])

Replicas(s) ==
    IF current_replicas[s] = NoEntry THEN 1 ELSE current_replicas[s]

\* the decision as the rule states it
StatedDecision(s) ==
    LET p == scaling_policies[s]
        n == Len(Window(s))
    IN  IF n < p.evaluation_periods THEN "none"
        ELSE IF /\ \/ MeanCpuTimesN(s) > p.cpu_scale_up_threshold * n
                   \/ MeanMemoryTimesN(s) > p.memory_scale_up_threshold * n
                   \/ MeanNetworkTimesN(s) > p.network_scale_up_threshold * n
                /\ Replicas(s) < p.max_replicas
             THEN "up"
        ELSE IF /\ MeanCpuTimesN(s) < p.cpu_scale_down_threshold * n
                /\ MeanMemoryTimesN(s) < p.memory_scale_down_threshold * n
                /\ MeanNetworkTimesN(s) < p.network_scale_down_threshold * n
                /\ Replicas(s) > p.min_replicas
             THEN "down"
        ELSE "none"

\* C15 (SpecDecision): with the cooldown expired and prediction disabled,
\* _make_scaling_decision returns NONE with fewer than evaluation_periods
\* samples, otherwise UP when the window mean of some axis exceeds its up
\* threshold and replicas < max, else DOWN when every axis is below its down
\* threshold and replicas > min, else NONE; the action taken follows it.
C15_DecisionRule ==
    \A s \in Services :
        /\ ( /\ eval_task.pc = "idle"
             /\ _is_cooldown_expired(s, scaling_policies[s])
             /\ ~scaling_policies[s].enable_prediction )
           => _make_scaling_decision(s, scaling_policies[s]) = StatedDecision(s)
        /\ ( /\ eval_task.pc = "scaling"
             /\ eval_task.service = s
             /\ ~scaling_policies[s].enable_prediction )
           => eval_task.direction = StatedDecision(s)

C15_Witness ==
    \E s \in Services :
        /\ eval_task.pc = "scaling"
        /\ eval_task.service = s
        /\ eval_task.direction = "up"
        /\ ~scaling_policies[s].enable_prediction
        /\ MeanCpuTimesN(s) <= scaling_policies[s].cpu_scale_up_threshold * Len(Window(s))
        /\ MeanMemoryTimesN(s)
              <= scaling_policies[s].memory_scale_up_threshold * Len(Window(s))

\* ---- reverse proxy (SpecProxy), continued

\* C16: within one proxy_request call no retry is sent to a backend that
\* already failed for this call.  The call retries only after the request to
\* the backend selected first has failed, so no retry may be sent to that one.
C16_RetryAvoidsFailed ==
    [][\A r \in Requests :
          ( /\ requests[r].pc = "retry_sleep"
            /\ requests'[r].pc = "inflight" )
          => requests'[r].backend # requests[r].first]_vars

\* C17: on a target that allows retries, when the backend selected for a
\* request is refused by its open breaker while another backend is healthy
\* with a closed breaker, the call does not return 503 (it goes on to that
\* other backend).
C17_OpenBreakerFailsOver ==
    [][\A r \in Requests, b \in Backends :
          ( /\ proxy_target.max_retries > 0
            /\ requests[r].pc # "retry_sleep"
            /\ Routed(r, b)
            /\ ~can_attempt(circuit_breakers[b])
            /\ \E o \in Backends \ {b} :
                  /\ backend_status[o] = "healthy"
                  /\ circuit_breakers[o].state = "closed" )
          => ~( /\ requests'[r].pc = "idle"
                /\ last_result'.result = "503_circuit_open" )]_vars

\* C18: in every reachable state, under any number of concurrent proxied
\* requests, no backend has more current connections than its max_connections
\* (a saturated backend is passed over by the selector).
C18_ConnectionsWithinMax ==
    \A b \in Backends : current_connections[b] <= max_connections[b]

\* C19: on a target with sticky sessions, once a request of a session has been
\* served by a backend, every later request of that session is routed to the
\* same backend for as long as it stays healthy.
C19_StickySessionPinned ==
    [][\A r \in Requests :
          ( /\ proxy_target.sticky_sessions
            /\ session_served # NoBackend
            /\ requests[r].pc \in {"idle", "selecting"}
            /\ requests'[r].pc = "inflight" )
          => requests'[r].backend = session_served]_vars

\* C20: under round_robin with a fixed set of healthy backends, selection is
\* driven by a per-request counter, with the store available or not: of any
\* two consecutive selections over the two healthy backends, each backend gets
\* one.
C20_RoundRobinAlternates ==
    [][\A r \in Requests :
          ( /\ requests[r].pc = "selecting"
            /\ requests'[r].pc # "selecting"
            /\ requests[r].snapshot = BackendList
            /\ get_healthy_backends = BackendList
            /\ last_selected # NoBackend )
          => last_selected' # last_selected]_vars

\* C21: the startup queue is bounded: it never holds more start intents than
\* its configured capacity (a Start call made while it is full is rejected
\* and not enqueued).
C21_QueueWithinCapacity ==
    Len(startup_queue) <= QueueCapacity

\* C22: a container whose startup failed is in state error (with its message)
\* and stays there until a later Start or Stop call is made for it: with no
\* Stop call under way for it, the only steps that take it out of error are
\* the entry of a Start call (starting) or of a Stop call (stopping).
C22_ErrorUntilStartOrStop ==
    [][\A n \in ContainerNames :
          ( /\ n \in DOMAIN containers
            /\ containers[n].state = "error"
            /\ stop_task.name # n
            /\ containers'[n].state # "error" )
          => containers'[n].state \in {"starting", "stopping"}]_vars

\* the edges of the specified state machine; the last group is any -> stopped
StateEdges ==
    {<<"stopped", "starting">>, <<"starting", "running">>, <<"starting", "error">>,
     <<"running", "stopping">>, <<"stopping", "stopped">>, <<"running", "unhealthy">>,
     <<"unhealthy", "running">>, <<"unhealthy", "error">>}
      \cup {<<s, "stopped">> : s \in {"starting", "running", "stopping",
                                      "unhealthy", "error"}}

\* C23: a container is registered in state stopped, and every change of its
\* state made by Start, Stop, a startup worker or the health loop follows an
\* edge of the specified state machine.
C23_StateMachineEdges ==
    [][\A n \in ContainerNames :
          IF n \in DOMAIN containers
          THEN \/ containers'[n].state = containers[n].state
               \/ <<containers[n].state, containers'[n].state>> \in StateEdges
          ELSE n \in DOMAIN containers' => containers'[n].state = "stopped"]_vars

\* C24: in every reachable state, a container whose state is running has a
\* container_id.
C24_RunningHasContainerId ==
    \A n \in DOMAIN containers :
        containers[n].state = "running" => containers[n].container_id

\* a container made running by a worker while a stop of it was under way
C24_Witness ==
    \E n \in DOMAIN containers :
        /\ containers[n].state = "running"
        /\ containers[n].container_id
        /\ stop_task = [pc |-> "stopping", name |-> n]

\* C25: trigger_hook invokes the subscribers of the hook point in registration
\* order and returns one result per subscriber in that order; a subscriber
\* that raises does not stop the later ones, and its error is its entry of
\* the returned list.
C25_HookResultsInOrder ==
    LET list == IteratedCallbacks
        results == trigger_task.results
    IN  /\ Len(results) <= Len(list)
        /\ \A k \in 1..Len(results) : results[k].callback = list[k]
        /\ trigger_task.pc = "returned" => Len(results) = Len(list)
        /\ \A j, k \in 1..Len(list) :
              j < k => list[j].instance < list[k].instance

\* a call returned two results, the first subscriber's being its error
C25_Witness ==
    /\ trigger_task.pc = "returned"
    /\ Len(trigger_task.results) = 2
    /\ trigger_task.results[1].error
    /\ ~trigger_task.results[2].error

\* C26: the health loop moves a running container to unhealthy only after two
\* consecutive failed checks: the first check that ever fails leaves the
\* container running.
C26_UnhealthyAfterTwoFailures ==
    [][\A n \in ContainerNames :
          ( /\ ~health_failed
            /\ HealthCheck(n, "probe_failed") )
          => containers'[n].state = "running"]_vars

\* C27: the health loop keeps probing a container in state unhealthy, and a
\* check that succeeds restores it to running: for every unhealthy container
\* a health-loop step with a passing check is possible and ends in running.
C27_UnhealthyStillProbed ==
    \A n \in ContainerNames :
        (n \in DOMAIN containers /\ containers[n].state = "unhealthy")
        => ENABLED ( /\ HealthCheck(n, "healthy")
                     /\ containers'[n].state = "running" )

\* C28: when the health loop finds that a running container has left running
\* in the runtime (status not running, or container not found), it moves the
\* container to stopped or unhealthy and clears its container_id.
C28_LeftRunningClearsId ==
    [][\A n \in ContainerNames, outcome \in {"not_running", "not_found"} :
          HealthCheck(n, outcome)
          => /\ containers'[n].state \in {"stopped", "unhealthy"}
             /\ ~containers'[n].container_id]_vars

\* C29: an active health probe leaves the status of a backend in maintenance
\* unchanged, whether the probe passes or fails; for any other backend a
\* failed probe sets unhealthy and a passing probe sets healthy.
C29_ProbeKeepsMaintenance ==
    [][\A b \in Backends, passed \in BOOLEAN :
          HealthProbe(b, passed)
          => backend_status'[b] =
                IF backend_status[b] = "maintenance" THEN "maintenance"
                ELSE IF passed THEN "healthy" ELSE "unhealthy"]_vars

\* C30: a closed breaker opens exactly when its count of failures since the
\* last success reaches the threshold: below the threshold it is closed and
\* admits requests, the failure that reaches it opens it, and a success
\* resets the count to 0.
C30_OpensAtThreshold ==
    [][\A b \in Backends :
          LET cb == circuit_breakers[b]
              after == circuit_breakers'[b]
          IN  /\ cb.state = "closed"
                 => /\ cb.failure_count < cb.threshold
                    /\ can_attempt(cb)
              /\ (cb.state = "closed" /\ after.failure_count = cb.failure_count + 1)
                 => after.state =
                       IF after.failure_count = cb.threshold THEN "open"
                       ELSE "closed"
              /\ (cb.state = "closed" /\ after.state # "closed")
                 => after.failure_count = cb.failure_count + 1
              /\ (\E r \in Requests : requests[r].backend = b /\ Response(r))
                 => after.failure_count = 0]_vars

\* a breaker that stayed closed after one failure and opened on the second
C30_Witness ==
    \E b \in Backends :
        /\ circuit_breakers[b].threshold = 2
        /\ circuit_breakers[b].state = "open"
        /\ circuit_breakers[b].failure_count = 2

\* a start_container call is suspended in the dependency wait
WaitingForDependency ==
    \E t \in StartCallers :
        /\ start_calls[t].stack # <<>>
        /\ start_calls[t].stack[Len(start_calls[t].stack)].pc = "dep_wait"

CallReturns(t) ==
    /\ start_calls[t].stack # <<>>
    /\ start_calls'[t].stack = <<>>

\* C32: a start_container call that returns while a dependency of its
\* container is not running returns False, leaves the container in state
\* error and has put nothing on the startup queue.
C32_DependencyFailureRejectsStart ==
    [][\A t \in StartCallers :
          CallReturns(t) =>
              LET f == start_calls[t].stack[1]
              IN  (\E i \in 1..Len(f.dependencies) :
                      \/ f.dependencies[i] \notin DOMAIN containers
                      \/ containers[f.dependencies[i]].state # "running")
                  => /\ start_calls'[t].result = "False"
                     /\ containers'[f.name].state = "error"
                     /\ startup_queue' = startup_queue]_vars

\* C33: the reported status of a service goes from running to unhealthy, or
\* from unhealthy to running, only in the step in which a pass of
\* _check_services_health has probed that service and written that status.
C33_StatusFollowsProbe ==
    [][\A n \in DiscoveryNames :
          (/\ n \in DOMAIN services
           /\ n \in DOMAIN services'
           /\ {services[n].status, services'[n].status} = {"running", "unhealthy"})
          => /\ disc_health_task.pc = "probe"
             /\ disc_health_task.cur = n
             /\ disc_health_task'.pc = "setex"
             /\ disc_health_task'.view[n].status = services'[n].status]_vars

\* ---- auto-shutdown log (SpecShutdown)

\* C34: the action of a fired shutdown starts only after the notification
\* and the grace period of its rule, and when it has ended exactly one row
\* has been added to the shutdown log, which reports success only when the
\* container was stopped and carries an error message when the action failed.
C34_NotifyGraceActLog ==
    [][/\ (shutdown_task.pc # "acting" /\ shutdown_task'.pc = "acting")
          => /\ shutdown_rule.grace_period > 0 => shutdown_task.pc = "grace"
             /\ shutdown_rule.notification => shutdown_task.pc \in {"notify", "grace"}
       /\ (shutdown_task.pc = "acting" /\ shutdown_task'.pc # "acting")
          => /\ Len(shutdown_logs') = Len(shutdown_logs) + 1
             /\ LET log == shutdown_logs'[Len(shutdown_logs')]
                    c == shutdown_task.container
                IN  /\ log.success => ~runtime_stats'[c].running
                    /\ ~log.success => log.error_message]_vars

\* ---- scaling event list (SpecScaler)

\* C35: the stored list of a service's scaling events holds at most as many
\* entries as the cap (100 in the code, ltrim_stop here), and they are the
\* most recent events recorded, newest first.
C35_EventListCapped ==
    \A s \in Services :
        LET list == scaling_events[s]
        IN  /\ Len(list) <= ltrim_stop
            /\ \A i \in 1..Len(list) : list[i] = Head(list) - (i - 1)

\* ---- interleaved scale actions (SpecScaler)

\* the scale action of task records a successful event in this step;
\* current_replicas holds an entry exactly when a successful event was
\* recorded before, and the entry is that event's to_replicas
RecordsSuccess(task, task_after, succeeded) ==
    /\ task.pc = "recording"
    /\ task_after.pc = "idle"
    /\ succeeded

ChainedEvent(task) ==
    /\ current_replicas'[task.service] = task.to_replicas
    /\ current_replicas[task.service] # NoEntry
       => task.from_replicas = current_replicas[task.service]

\* C40: when a scale action, automatic or manual, records a successful
\* event, current_replicas becomes the event's to_replicas and the event's
\* from_replicas is the to_replicas of the successful event before it.
C40_NoLostScaleUpdate ==
    [][/\ RecordsSuccess(eval_task, eval_task',
                         eval_task.pc = "recording" /\ eval_task.success)
          => ChainedEvent(eval_task)
       /\ RecordsSuccess(manual_task, manual_task', TRUE)
          => ChainedEvent(manual_task)]_vars

\* ---- start intents (SpecOrch)

\* the start intents for name that are queued or being executed by a worker
Intents(name) ==
    Cardinality({i \in 1..Len(startup_queue) : startup_queue[i] = name})
    + Cardinality({w \in Workers : workers[w].pc = "waiting" /\ workers[w].name = name})

\* C36: at any time at most one start intent for a container is queued or
\* being executed by a worker.
C36_OneIntentPerContainer == \A name \in ContainerNames : Intents(name) <= 1

\* C37: a container in state stopped leaves that state only by a
\* start_container call, which sets starting; no start intent that was
\* queued or in execution before brings it to running.
C37_StoppedUntilStart ==
    [][\A name \in DOMAIN containers :
          containers[name].state = "stopped"
          => containers'[name].state \in {"stopped", "starting"}]_vars

\* ---- connection counters (SpecProxy)

\* the requests whose current attempt, first or retry, is directed to b
Attempting(b) ==
    {r \in Requests : /\ requests[r].pc \in {"inflight", "retry_sleep"}
                      /\ requests[r].backend = b}

\* C39: a backend's current_connections is the number of requests being
\* attempted against it, first attempts and retries alike; hence it is never
\* negative and is 0 when no request is in flight.
C39_ConnectionsCountAttempts ==
    \A b \in Backends : current_connections[b] = Cardinality(Attempting(b))

\* ---- termination of a start (SpecOrchLive)

\* the start_container invocation that is to resume would call
\* start_container deeper than the model follows the recursion
DepthCut ==
    \E t \in StartCallers :
        /\ start_calls[t].stack # <<>>
        /\ start_calls[t].stack[Len(start_calls[t].stack)].pc = "marked"
        /\ Len(RunLoop(Context(t)).stack) > MaxDepth

\* C38: under the orchestrator's scheduling, a container in state starting
\* eventually is in another state (running, error, stopping or stopped), also
\* when its dependency fails, times out or is part of a cycle; the model
\* follows the recursion of start_container up to MaxDepth nested calls.
C38_StartingEventuallyLeaves ==
    \A name \in ContainerNames :
        (name \in DOMAIN containers /\ containers[name].state = "starting")
        ~> \/ name \in DOMAIN containers /\ containers[name].state # "starting"
           \/ DepthCut

\* the start of a dependency, called from the start of its dependent, has
\* timed out waiting for its own dependency and left starting for error
C38_Witness ==
    \E t \in StartCallers :
        LET n == Len(start_calls[t].stack)
        IN  /\ n = 2
            /\ start_calls[t].stack[n].pc = "failing"
            /\ containers[start_calls[t].stack[n].name].state = "error"
            /\ containers[start_calls[t].stack[1].name].state = "starting"

====
